---- MODULE Spec2Model ----
(***************************************************************************)
(* Requisition tracker: the Express/PostgreSQL backend (backend/app.js)    *)
(* and the React table client (frontend/src/components/Table.jsx, App).    *)
(*                                                                         *)
(* The store is the `requisitions` table.  Every route handler is a chain  *)
(* of awaited queries; each query is one atomic step of the model and the  *)
(* steps of different requests interleave freely, as they do on the Node   *)
(* event loop with a connection pool.  Every browser client keeps its own  *)
(* copy of the table (`rows`), refreshed by fetchRows.                     *)
(***************************************************************************)
EXTENDS Integers, Sequences, FiniteSets, Bags, TLC

\* ---------------------------------------------------------------- bounds
\* Number of writes (INSERT / UPDATE / DELETE) a run may commit; NOW() is the
\* logical time of the write.
MaxClock == 2
\* Number of HTTP requests (PUT / POST) that may be in flight at once, answered
\* ones included until the client has handled the answer.
MaxReqs == 2
\* Reconnects of the notification listener that can be under way at once:
\* pending timers plus startListener calls at an await.
MaxReconnects == 2
\* The same, for the run of failed reconnects that takes the delay to its cap.
MaxStorm == 8

\* ---------------------------------------------------------------- domains
\* One browser client per recruiter; the client is named by the display name
\* it keeps in localStorage.
Clients == {"A", "B", "C"}
ReqIds == {"R1", "R2"}
\* What a user can type into the Requirement ID box of the add form.
FormIds == {"R1", "R2", "R 1"}
\* What a user types into the title and client boxes of the add form.
FormTitles == {"T1"}
FormClients == {"K1"}
SlotVals == {0, 1}
Statuses == {"Open", "Closed"}

VARIABLES
    db,        \* the requisitions table: requirementid -> row
    now,       \* logical clock behind NOW()
    rows,      \* rows[c]: client c's local copy of the table
    editing,   \* editing[c][id]: client c's unsaved cell edits of row id
    alert,     \* alert[c]: the modal alert() client c is looking at
    reqs,      \* HTTP requests in flight (PUT and POST)
    pending,   \* pending[c]: fetchRows calls of c not yet answered
    emitted,   \* emitted[t]: socket events the server has sent to the clients
               \* for the write committed at time t (t = 0: for no write)
    activeEditors,  \* the server's Map, as its set of entries
                    \* [requirementid, user, field, socket]
    editingStatus,  \* editingStatus[c]: client c's requirementid -> marker
    connected,      \* the clients whose socket is connected
    outbox,         \* outbox[c]: the bag of editing_status events that the
                    \* server's latest socket handler run has sent to c
    wire,           \* the latest requisition event io.emit has sent to all
    listenerClient,          \* the pg Client the global names, 0 for null
    listenerReconnectDelay,  \* milliseconds
    pgClients,      \* pgClients[i]: the connection state of listener client i
    timers,         \* the delays of the pending setTimeout(startListener)
    calls,          \* the startListener calls that are at an await
    dbUp,           \* the database accepts and keeps connections
    MAX_BACKOFF     \* the cap of the revision of the server that is running

\* The editing-presence state, which no HTTP route touches.
presence == <<activeEditors, editingStatus, connected, outbox>>

\* The state of the dedicated LISTEN client, which no route and no socket
\* handler touches.
listener == <<listenerClient, listenerReconnectDelay, pgClients, timers, calls,
              dbUp, MAX_BACKOFF>>

\* The table, the pages and the HTTP requests, which startListener leaves
\* alone.
store == <<db, now, rows, editing, alert, reqs, pending, emitted, wire>>

vars == <<db, now, rows, editing, alert, reqs, pending, emitted,
          activeEditors, editingStatus, connected, outbox, wire,
          listenerClient, listenerReconnectDelay, pgClients, timers, calls,
          dbUp, MAX_BACKOFF>>

\* ---------------------------------------------------------------- helpers
Range(s) == {s[i] : i \in 1..Len(s)}

EmptyTable == [i \in {} |-> 0]

\* Array.prototype.includes
includes(arr, u) == u \in Range(arr)

\* Array.prototype.filter((x) => x !== u)
filterOut(arr, u) == SelectSeq(arr, LAMBDA x : x # u)

currentUser(c) == c

\* Column values that stand in a request body for the columns it does not name.
DefaultVals ==
    [requirementid |-> "-", title |-> "-", client |-> "-", slots |-> 0,
     status |-> "-", assigned_recruiters |-> <<>>, working_times |-> {}]

NoEdit == [keys |-> {}, vals |-> DefaultVals]

NewReq ==
    [pc |-> "sent", client |-> "-", kind |-> "-", id |-> "-", keys |-> {},
     vals |-> DefaultVals,
     resp |-> "-",    \* the answer: ok, okempty, nochange, notfound, locked, ...
     sel |-> 0,       \* the time of the handler's SELECT
     at |-> 0,        \* createdat of the row the answer carries
     rowid |-> "-",   \* requirementid of the row the answer carries
     ret |-> {}]      \* result.rows of an UPDATE whose io.emit is still to run

\* Requests that may still write: a new request is issued only while the
\* write budget has room for it.
Live == {q \in reqs : q.pc \in {"sent", "update"}}

CanIssue == Cardinality(reqs) < MaxReqs /\ now + Cardinality(Live) < MaxClock

\* io.emit("requisitions_updated", ...): every client's handler is fetchRows.
\* A tag names the row whose editing entry is dropped once the fetch is done
\* ("" for a plain fetchRows).
Broadcast(pend) == [c \in Clients |-> pend[c] \cup {""}]

\* io.emit(event, payload): one more event sent to every connected client, for
\* the write committed at time t.
Emit(t) == [emitted EXCEPT ![t] = @ + 1]

\* io.emit(name, payload): the payload is a row, an id, or undefined (both
\* sets empty).
Event(name, payloadRows, payloadIds) ==
    [event |-> name, rows |-> payloadRows, ids |-> payloadIds]

NoEvent == Event("", {}, {})

\* ---------------------------------------------------------------- client
isNonWorkable(row) == row.status # "Open" \/ row.slots = 0

isAssigned(row, user) == includes(row.assigned_recruiters, user)

\* (a check that looks only at the row being toggled)
alreadyWorking_sameRow(rws, user, id) ==
    \E r \in DOMAIN rws :
        /\ includes(rws[r].assigned_recruiters, user)
        /\ rws[r].requirementid = id

alreadyWorking(rws, user, id) ==
    \E r \in DOMAIN rws :
        /\ includes(rws[r].assigned_recruiters, user)
        /\ rws[r].requirementid # id

\* (a capacity check that is off by one)
capacityFull_offByOne(assignedUsers) == Len(assignedUsers) > 2

capacityFull(assignedUsers) == Len(assignedUsers) >= 2

newAssigned(row, user) ==
    IF isAssigned(row, user)
    THEN filterOut(row.assigned_recruiters, user)
    ELSE Append(row.assigned_recruiters, user)

\* (an unassign that leaves the recruiter's start time behind)
newWorkingTimes_keepOnUnassign(row, user) ==
    row.working_times \cup {user}

\* working_times is kept by its key set; the values are client timestamps.
newWorkingTimes(row, user) ==
    IF isAssigned(row, user)
    THEN row.working_times \ {user}
    ELSE row.working_times \cup {user}

disableCheckbox(rws, row, user) ==
    \/ isNonWorkable(row)
    \/ /\ ~includes(row.assigned_recruiters, user)
       /\ \/ Len(row.assigned_recruiters) >= 2
          \/ alreadyWorking(rws, user, row.requirementid)

\* ---------------------------------------------------------------- server
\* String.prototype.toLowerCase on the keys of a request body.
toLowerCase(key) ==
    CASE key = "Status" -> "status"
      [] key = "Slots" -> "slots"
      [] OTHER -> key

\* The columns of the SET clause.
setClauses(keys) == {toLowerCase(k) : k \in keys}

\* (a check that looks at status only)
isLocked_statusOnly(assigned, keys) ==
    Len(assigned) > 0 /\ "status" \in keys

\* The check that answers 400 "A Recruiter is working on this req."
isLocked(assigned, keys) ==
    Len(assigned) > 0 /\ ("status" \in keys \/ "slots" \in keys)

\* (a whole-record replace: the columns the patch does not name are reset)
applyUpdate_wholeRecord(row, cols, vals, ts) ==
    [requirementid |->
        IF "requirementid" \in cols THEN vals.requirementid ELSE row.requirementid,
     title |-> vals.title,
     client |-> vals.client,
     slots |-> vals.slots,
     status |-> IF "status" \in cols THEN vals.status ELSE "Open",
     assigned_recruiters |-> vals.assigned_recruiters,
     working_times |-> vals.working_times,
     createdat |-> ts]

\* UPDATE requisitions SET <named columns>, createdat = NOW() on one row.
applyUpdate(row, cols, vals, ts) ==
    [requirementid |->
        IF "requirementid" \in cols THEN vals.requirementid ELSE row.requirementid,
     title |-> IF "title" \in cols THEN vals.title ELSE row.title,
     client |-> IF "client" \in cols THEN vals.client ELSE row.client,
     slots |-> IF "slots" \in cols THEN vals.slots ELSE row.slots,
     status |-> IF "status" \in cols THEN vals.status ELSE row.status,
     assigned_recruiters |->
        IF "assigned_recruiters" \in cols
        THEN vals.assigned_recruiters ELSE row.assigned_recruiters,
     working_times |->
        IF "working_times" \in cols THEN vals.working_times ELSE row.working_times,
     createdat |-> ts]

\* The table after the UPDATE of row id (the row moves when its key changes).
updateTable(table, id, newRow) ==
    [k \in (DOMAIN table \ {id}) \cup {newRow.requirementid} |->
        IF k = newRow.requirementid THEN newRow ELSE table[k]]

\* ---------------------------------------------------------------- Init
InitRow(id) ==
    [requirementid |-> id, title |-> "T1", client |-> "K1", slots |-> 1,
     status |-> "Open", assigned_recruiters |-> <<>>, working_times |-> {},
     createdat |-> 0]

\* A row that recruiter u is working on.
WorkedRow(id, u) ==
    [InitRow(id) EXCEPT !.assigned_recruiters = <<u>>, !.working_times = {u}]

\* The pg Clients that startListener has created and that are still around.
PgIds == 1..3

\* Module load: listenerClient = null, listenerReconnectDelay = 2000, and the
\* startListener() call at the end of the section, which has run up to its
\* `await listenerClient.connect()` with the first Client.
InitListener(cap) ==
    /\ MAX_BACKOFF = cap
    /\ listenerReconnectDelay = 2000
    /\ listenerClient = 1
    /\ pgClients = [i \in PgIds |-> IF i = 1 THEN "created" ELSE "free"]
    /\ calls = {[pc |-> "connect", c |-> 1]}
    /\ timers = <<>>
    /\ dbUp = TRUE

\* The server has started on a table holding the rows `ids`; every client has
\* mounted its table component, whose effect has called fetchRows.
InitStore(table, inFlight) ==
    /\ db = table
    /\ now = 0
    /\ rows = [c \in Clients |-> EmptyTable]
    /\ editing = [c \in Clients |-> [id \in ReqIds |-> NoEdit]]
    /\ alert = [c \in Clients |-> "none"]
    /\ reqs = inFlight
    /\ pending = [c \in Clients |-> {""}]
    /\ emitted = [t \in 0..MaxClock |-> 0]
    /\ wire = NoEvent
    /\ activeEditors = {}
    /\ editingStatus = [c \in Clients |-> EmptyTable]
    /\ connected = Clients
    /\ outbox = [c \in Clients |-> EmptyBag]

\* The same, on the server of backend/app.js.
InitState(table, inFlight) ==
    /\ InitListener(30000)
    /\ InitStore(table, inFlight)

InitTable(table) == InitState(table, {})

InitWith(ids) == InitTable([id \in ids |-> InitRow(id)])

Init == InitWith(ReqIds)

\* ---------------------------------------------------------------- fetchRows
\* fetchRows: GET /api/requisitions (SELECT * of the whole table), then
\* setRows(res.data).  After the fetch awaited in handleSave's catch, the
\* editing entry of that row is dropped.
FetchRows(c) ==
    /\ alert[c] = "none"
    /\ \E tag \in pending[c] :
        /\ pending' = [pending EXCEPT ![c] = @ \ {tag}]
        /\ rows' = [rows EXCEPT ![c] = db]
        /\ editing' =
            IF tag = "" THEN editing
            ELSE [editing EXCEPT ![c][tag] = NoEdit]
    /\ UNCHANGED <<db, now, alert, reqs, emitted, wire>>
    /\ UNCHANGED presence
    /\ UNCHANGED listener

\* fetchRows as the page runs it.  FetchRows above takes the GET and setRows
\* as one step; the three steps below are the call (axios.get is sent), the
\* route's SELECT, and the continuation setRows(res.data), for the properties
\* that depend on several fetchRows of one client being in flight.  A request
\* of kind "fetch" carries the pending tag in id and the SELECT's rows in ret.
\* Two calls of one client that the server has not served yet are one element
\* of reqs.
FetchSend(c) ==
    /\ alert[c] = "none"
    /\ Cardinality(reqs) < MaxReqs
    /\ \E tag \in pending[c] :
        /\ pending' = [pending EXCEPT ![c] = @ \ {tag}]
        /\ reqs' = reqs \cup
                {[NewReq EXCEPT !.client = c, !.kind = "fetch", !.id = tag]}
    /\ UNCHANGED <<db, now, rows, editing, alert, emitted, wire>>
    /\ UNCHANGED presence
    /\ UNCHANGED listener

\* app.get("/api/requisitions"): SELECT * FROM requisitions, res.json(rows).
GetRequisitions(q) ==
    /\ q.pc = "sent"
    /\ q.kind = "fetch"
    /\ reqs' = (reqs \ {q}) \cup
            {[q EXCEPT !.pc = "resp", !.resp = "ok", !.sel = now,
                       !.ret = {db[k] : k \in DOMAIN db}]}
    /\ UNCHANGED <<db, now, rows, editing, alert, pending, emitted, wire>>
    /\ UNCHANGED presence
    /\ UNCHANGED listener

\* setRows(res.data): the rows on screen are the rows of this response.
setRows(old, data) ==
    [id \in {r.requirementid : r \in data} |->
        CHOOSE r \in data : r.requirementid = id]

\* The continuation of fetchRows after `await axios.get(...)`.
FetchDeliver(q) ==
    /\ q.pc = "resp"
    /\ q.kind = "fetch"
    /\ alert[q.client] = "none"
    /\ reqs' = reqs \ {q}
    /\ rows' = [rows EXCEPT ![q.client] = setRows(@, q.ret)]
    /\ editing' =
        IF q.id = "" THEN editing
        ELSE [editing EXCEPT ![q.client][q.id] = NoEdit]
    /\ UNCHANGED <<db, now, alert, pending, emitted, wire>>
    /\ UNCHANGED presence
    /\ UNCHANGED listener

\* ---------------------------------------------------------------- toggleWorking
ToggleWorking(c, r) ==
    /\ alert[c] = "none"
    /\ r \in DOMAIN rows[c]
    /\ LET row == rows[c][r]
           user == currentUser(c) IN
       IF row.requirementid = ""
       THEN UNCHANGED <<alert, reqs>>
       ELSE IF ~isAssigned(row, user) /\ alreadyWorking(rows[c], user, row.requirementid)
       THEN /\ alert' = [alert EXCEPT ![c] = "elsewhere"]
            /\ UNCHANGED reqs
       ELSE IF ~isAssigned(row, user) /\ capacityFull(row.assigned_recruiters)
       THEN /\ alert' = [alert EXCEPT ![c] = "full"]
            /\ UNCHANGED reqs
       ELSE /\ CanIssue
            /\ reqs' = reqs \cup {
                    [NewReq EXCEPT
                        !.client = c, !.kind = "toggle",
                        !.id = row.requirementid,
                        !.keys = {"assigned_recruiters", "working_times"},
                        !.vals = [DefaultVals EXCEPT
                            !.assigned_recruiters = newAssigned(row, user),
                            !.working_times = newWorkingTimes(row, user)]]}
            /\ UNCHANGED alert
    /\ UNCHANGED <<db, now, rows, editing, pending, emitted, wire>>
    /\ UNCHANGED presence
    /\ UNCHANGED listener

\* ---------------------------------------------------------------- cell edits
\* revertFieldImmediate: drop one field of the row's editing entry.
revertFieldImmediate(entry, field) ==
    [keys |-> entry.keys \ {field},
     vals |-> [entry.vals EXCEPT ![field] = DefaultVals[field]]]

\* handleEdit: editing[reqId][field] = value
handleEdit(entry, field, value) ==
    [keys |-> entry.keys \cup {field},
     vals |-> [entry.vals EXCEPT ![field] = value]]

\* What a user types into a cell.
EditValues(field) ==
    CASE field = "requirementid" -> {"R2"}
      [] field = "title" -> {"T2"}
      [] field = "client" -> {"K2"}
      [] field = "slots" -> {0}
      [] field = "status" -> {"Closed"}

EditFields == {"requirementid", "title", "client", "slots", "status"}

\* The cells of client c whose edit no handleSave has picked up yet.  A cell
\* is edited while it has the focus, and its onBlur calls handleSave before
\* another cell can take the focus.
Unsaved(c) ==
    {<<r, f>> \in ReqIds \X EditFields :
        /\ f \in editing[c][r].keys
        /\ r \notin pending[c]
        /\ ~\E q \in reqs :
                q.client = c /\ q.kind = "save" /\ q.id = r /\ f \in q.keys}

\* onChange of a cell of row r.  The Slots and Status cells refuse the change
\* while the local row shows the user as assigned.
HandleEdit(c, r, field) ==
    /\ alert[c] = "none"
    /\ r \in DOMAIN rows[c]
    /\ Unsaved(c) \subseteq {<<r, field>>}
    /\ CanIssue
    /\ LET row == rows[c][r] IN
       IF field \in {"slots", "status"}
            /\ includes(row.assigned_recruiters, currentUser(c))
       THEN /\ editing' = [editing EXCEPT
                    ![c][r] = revertFieldImmediate(@, field)]
            /\ alert' = [alert EXCEPT ![c] = "frozen"]
       ELSE /\ \E v \in EditValues(field) :
                editing' = [editing EXCEPT ![c][r] = handleEdit(@, field, v)]
            /\ UNCHANGED alert
    /\ UNCHANGED <<db, now, rows, reqs, pending, emitted, wire>>
    /\ UNCHANGED presence
    /\ UNCHANGED listener

\* axios.put(`/api/requisitions/${reqId}`, updatedFields) of handleSave
saveRequest(c, r) ==
    [NewReq EXCEPT
        !.client = c, !.kind = "save", !.id = r,
        !.keys = editing[c][r].keys,
        !.vals = editing[c][r].vals]

\* onBlur of a cell of row r: handleSave(reqId) sends the row's editing entry.
HandleSave(c, r) ==
    /\ alert[c] = "none"
    /\ r \in DOMAIN rows[c]
    /\ editing[c][r].keys # {}
    /\ CanIssue
    /\ reqs' = reqs \cup {saveRequest(c, r)}
    /\ UNCHANGED <<db, now, rows, editing, alert, pending, emitted, wire>>
    /\ UNCHANGED presence
    /\ UNCHANGED listener

\* ---------------------------------------------------------------- PUT route
Replace(q, q2) == (reqs \ {q}) \cup {q2}

\* First awaited query of app.put: SELECT assigned_recruiters, slots, status.
PutSelect(q) ==
    /\ q.pc = "sent"
    /\ q.kind \in {"toggle", "save"}
    /\ reqs' = Replace(q,
            IF q.id \notin DOMAIN db
            THEN [q EXCEPT !.pc = "resp", !.resp = "notfound"]
            ELSE IF isLocked(db[q.id].assigned_recruiters, q.keys)
            THEN [q EXCEPT !.pc = "resp", !.resp = "locked"]
            ELSE IF q.keys = {}
            THEN [q EXCEPT !.pc = "resp", !.resp = "nochange"]
            ELSE [q EXCEPT !.pc = "update", !.sel = now])
    /\ UNCHANGED <<db, now, rows, editing, alert, pending, emitted, wire>>
    /\ UNCHANGED presence
    /\ UNCHANGED listener

\* Second awaited query of app.put: the UPDATE, then io.emit and res.json.
PutUpdate(q) ==
    /\ q.pc = "update"
    /\ q.kind \in {"toggle", "save"}
    /\ now < MaxClock
    /\ LET cols == setClauses(q.keys) IN
       IF q.id \notin DOMAIN db
       THEN \* no row matched: result.rows[0] is undefined, still emitted
            /\ reqs' = Replace(q, [q EXCEPT !.pc = "resp", !.resp = "okempty"])
            /\ pending' = Broadcast(pending)
            /\ emitted' = Emit(0)
            /\ wire' = Event("requisitions_updated", {}, {})
            /\ UNCHANGED <<db, now>>
       ELSE IF /\ "requirementid" \in cols
               /\ q.vals.requirementid # q.id
               /\ q.vals.requirementid \in DOMAIN db
       THEN \* primary key violation: the query throws, the catch answers 500
            /\ reqs' = Replace(q, [q EXCEPT !.pc = "resp", !.resp = "error"])
            /\ UNCHANGED <<db, now, pending, emitted, wire>>
       ELSE LET newRow == applyUpdate(db[q.id], cols, q.vals, now + 1) IN
            /\ db' = updateTable(db, q.id, newRow)
            /\ now' = now + 1
            /\ reqs' = Replace(q,
                    [q EXCEPT !.pc = "resp", !.resp = "ok",
                              !.at = newRow.createdat,
                              !.rowid = newRow.requirementid])
            /\ pending' = Broadcast(pending)
            /\ emitted' = Emit(now + 1)
            /\ wire' = Event("requisitions_updated", {newRow}, {})
    /\ UNCHANGED <<rows, editing, alert>>
    /\ UNCHANGED presence
    /\ UNCHANGED listener

\* The UPDATE of app.put as PostgreSQL runs it.  PutUpdate above takes the
\* query and the handler's continuation as one step; the continuation runs
\* when the pool connection has delivered the result to the event loop, and
\* the results of two requests come over two connections.  PutCommit and
\* PutEmit are the two halves for the properties that depend on the gap.
PutCommit(q) ==
    /\ q.pc = "update"
    /\ q.kind \in {"toggle", "save"}
    /\ now < MaxClock
    /\ LET cols == setClauses(q.keys) IN
       IF q.id \notin DOMAIN db
       THEN \* no row matched: result.rows is empty
            /\ reqs' = Replace(q, [q EXCEPT !.pc = "emit"])
            /\ UNCHANGED <<db, now>>
       ELSE IF /\ "requirementid" \in cols
               /\ q.vals.requirementid # q.id
               /\ q.vals.requirementid \in DOMAIN db
       THEN \* primary key violation: the query throws, the catch answers 500
            /\ reqs' = Replace(q, [q EXCEPT !.pc = "resp", !.resp = "error"])
            /\ UNCHANGED <<db, now>>
       ELSE LET newRow == applyUpdate(db[q.id], cols, q.vals, now + 1) IN
            /\ db' = updateTable(db, q.id, newRow)
            /\ now' = now + 1
            /\ reqs' = Replace(q,
                    [q EXCEPT !.pc = "emit",
                              !.at = newRow.createdat,
                              !.rowid = newRow.requirementid,
                              !.ret = {newRow}])
    /\ UNCHANGED <<rows, editing, alert, pending, emitted, wire>>
    /\ UNCHANGED presence
    /\ UNCHANGED listener

\* (the event and the answer produced while the UPDATE is still awaited)
PutEmit_beforeCommit(q) ==
    /\ q.pc = "update"
    /\ q.kind \in {"toggle", "save"}
    /\ q.id \in DOMAIN db
    /\ now < MaxClock
    /\ reqs' = Replace(q,
            [q EXCEPT !.pc = "resp", !.resp = "ok", !.at = now + 1])
    /\ pending' = Broadcast(pending)
    /\ emitted' = Emit(now + 1)
    /\ wire' = Event("requisitions_updated",
                     {applyUpdate(db[q.id], setClauses(q.keys), q.vals, now + 1)},
                     {})
    /\ UNCHANGED <<db, now, rows, editing, alert>>
    /\ UNCHANGED presence
    /\ UNCHANGED listener

\* The continuation of app.put after the awaited UPDATE:
\* io.emit("requisitions_updated", result.rows[0]); res.json(updatedRow).
PutEmit(q) ==
    /\ q.pc = "emit"
    /\ q.kind \in {"toggle", "save"}
    /\ reqs' = Replace(q,
            [q EXCEPT !.pc = "resp",
                      !.resp = IF q.ret = {} THEN "okempty" ELSE "ok",
                      !.ret = {}])
    /\ pending' = Broadcast(pending)
    /\ emitted' = Emit(q.at)
    /\ wire' = Event("requisitions_updated", q.ret, {})
    /\ UNCHANGED <<db, now, rows, editing, alert>>
    /\ UNCHANGED presence
    /\ UNCHANGED listener

\* The client's continuation after `await axios.put(...)`, in toggleWorking
\* and in handleSave.
PutResponse(q) ==
    /\ q.pc = "resp"
    /\ q.kind \in {"toggle", "save"}
    /\ alert[q.client] = "none"
    /\ LET c == q.client
           ok == q.resp \in {"ok", "okempty", "nochange"}
           msg == IF q.resp = "locked" THEN "locked" ELSE "error" IN
       /\ reqs' = reqs \ {q}
       /\ IF q.kind = "toggle"
          THEN IF ok
               THEN \* socket.emit("requisitions_updated"), which the server
                    \* relays to every client; then fetchRows()
                    /\ pending' = Broadcast(pending)
                    /\ emitted' = Emit(q.at)
                    /\ wire' = Event("requisitions_updated", {}, {})
                    /\ UNCHANGED <<alert, editing>>
               ELSE /\ alert' = [alert EXCEPT ![c] = msg]
                    /\ UNCHANGED <<pending, editing, emitted, wire>>
          ELSE IF ok
               THEN /\ pending' = Broadcast(pending)
                    /\ emitted' = Emit(q.at)
                    /\ wire' = Event("requisitions_updated", {}, {})
                    /\ editing' = [editing EXCEPT ![c][q.id] = NoEdit]
                    /\ UNCHANGED alert
               ELSE \* alert(msg); await fetchRows(); then drop editing[reqId]
                    /\ alert' = [alert EXCEPT ![c] = msg]
                    /\ pending' = [pending EXCEPT ![c] = @ \cup {q.id}]
                    /\ UNCHANGED <<editing, emitted, wire>>
    /\ UNCHANGED <<db, now, rows>>
    /\ UNCHANGED presence
    /\ UNCHANGED listener

\* A PUT /api/requisitions/:id sent by an HTTP client other than the table
\* component: req.body is whatever JSON object the caller wrote, so its keys
\* come in any letter case.
SendPut(c, id, keys, vals) ==
    /\ CanIssue
    /\ reqs' = reqs \cup {
            [NewReq EXCEPT
                !.client = c, !.kind = "save", !.id = id,
                !.keys = keys, !.vals = vals]}
    /\ UNCHANGED <<db, now, rows, editing, alert, pending, emitted, wire>>
    /\ UNCHANGED presence
    /\ UNCHANGED listener

\* The answer of the PUT reaches that caller, which does nothing more.
PutAnswered(q) ==
    /\ q.pc = "resp"
    /\ q.kind = "save"
    /\ reqs' = reqs \ {q}
    /\ UNCHANGED <<db, now, rows, editing, alert, pending, emitted, wire>>
    /\ UNCHANGED presence
    /\ UNCHANGED listener

\* The user closes the alert box; until then the page's event loop is blocked.
Dismiss(c) ==
    /\ alert[c] # "none"
    /\ alert' = [alert EXCEPT ![c] = "none"]
    /\ UNCHANGED <<db, now, rows, editing, reqs, pending, emitted, wire>>
    /\ UNCHANGED presence
    /\ UNCHANGED listener

\* ---------------------------------------------------------------- POST route
\* String.prototype.replace(/\s+/g, "")
\* (String.prototype.trim: only the ends are stripped)
stripWhitespace_trimOnly(id) ==
    CASE id = " " -> ""
      [] OTHER -> id

stripWhitespace(id) ==
    CASE id = "R 1" -> "R1"
      [] id = "R 2" -> "R2"
      [] id = " " -> ""
      [] OTHER -> id

\* String.prototype.trim() === ""
isBlank(id) == stripWhitespace(id) = ""

\* (no identifier is refused)
invalidId_never(requirementid) == FALSE

\* !requirementid || requirementid.trim() === ""
invalidId(requirementid) == requirementid = "" \/ isBlank(requirementid)

\* handleAddRow: the add form posts newReq when id, title and client are filled.
HandleAddRow(c, id, title, client, slots, status) ==
    /\ alert[c] = "none"
    /\ ~isBlank(id) /\ ~isBlank(title) /\ ~isBlank(client)
    /\ CanIssue
    /\ reqs' = reqs \cup {
            [NewReq EXCEPT
                !.client = c, !.kind = "add", !.id = id,
                !.keys = {"requirementId", "title", "client", "slots", "status"},
                !.vals = [DefaultVals EXCEPT
                    !.title = title, !.client = client,
                    !.slots = slots, !.status = status]]}
    /\ UNCHANGED <<db, now, rows, editing, alert, pending, emitted, wire>>
    /\ UNCHANGED presence
    /\ UNCHANGED listener

\* handleAddRow of the App revision whose form has no Requirement ID box: the
\* body it posts names no identifier (requirementid || requirementId || "").
HandleAddRowNoId(c, title, client, slots, status) ==
    /\ alert[c] = "none"
    /\ ~isBlank(title) /\ ~isBlank(client)
    /\ CanIssue
    /\ reqs' = reqs \cup {
            [NewReq EXCEPT
                !.client = c, !.kind = "add", !.id = "",
                !.keys = {"title", "client", "slots", "status"},
                !.vals = [DefaultVals EXCEPT
                    !.title = title, !.client = client,
                    !.slots = slots, !.status = status]]}
    /\ UNCHANGED <<db, now, rows, editing, alert, pending, emitted, wire>>
    /\ UNCHANGED presence
    /\ UNCHANGED listener

\* app.post up to its first awaited query: normalise the id, reject an empty
\* one, SELECT the id.
PostSelect(q) ==
    /\ q.pc = "sent"
    /\ q.kind = "add"
    /\ LET requirementid == stripWhitespace(q.id) IN
       reqs' = Replace(q,
            IF invalidId(requirementid)
            THEN [q EXCEPT !.pc = "resp", !.resp = "invalid"]
            ELSE IF requirementid \in DOMAIN db
            THEN [q EXCEPT !.pc = "resp", !.resp = "duplicate"]
            ELSE [q EXCEPT !.pc = "update", !.id = requirementid, !.sel = now])
    /\ UNCHANGED <<db, now, rows, editing, alert, pending, emitted, wire>>
    /\ UNCHANGED presence
    /\ UNCHANGED listener

\* The row the INSERT stores: slots || 1, status || "Open", no recruiters.
insertedRow(id, vals, ts) ==
    [requirementid |-> id, title |-> vals.title, client |-> vals.client,
     slots |-> IF vals.slots = 0 THEN 1 ELSE vals.slots,
     status |-> IF vals.status = "" THEN "Open" ELSE vals.status,
     assigned_recruiters |-> <<>>, working_times |-> {}, createdat |-> ts]

\* Second awaited query of app.post: the INSERT, then
\* io.emit("requisition_created") (no handler in the table component).
PostInsert(q) ==
    /\ q.pc = "update"
    /\ q.kind = "add"
    /\ now < MaxClock
    /\ IF q.id \in DOMAIN db
       THEN \* primary key violation: the catch answers 500
            /\ reqs' = Replace(q, [q EXCEPT !.pc = "resp", !.resp = "error"])
            /\ UNCHANGED <<db, now, emitted, wire>>
       ELSE LET newRow == insertedRow(q.id, q.vals, now + 1) IN
            /\ db' = [k \in DOMAIN db \cup {q.id} |->
                        IF k = q.id THEN newRow ELSE db[k]]
            /\ now' = now + 1
            /\ reqs' = Replace(q,
                    [q EXCEPT !.pc = "resp", !.resp = "ok",
                              !.at = newRow.createdat, !.rowid = q.id])
            /\ emitted' = Emit(now + 1)
            /\ wire' = Event("requisition_created", {newRow}, {})
    /\ UNCHANGED <<rows, editing, alert, pending>>
    /\ UNCHANGED presence
    /\ UNCHANGED listener

\* handleAddRow after `await axios.post(...)`: tableRef.current.fetchRows() on
\* success, an error banner otherwise.
PostResponse(q) ==
    /\ q.pc = "resp"
    /\ q.kind = "add"
    /\ alert[q.client] = "none"
    /\ reqs' = reqs \ {q}
    /\ pending' =
        IF q.resp = "ok"
        THEN [pending EXCEPT ![q.client] = @ \cup {""}]
        ELSE pending
    /\ UNCHANGED <<db, now, rows, editing, alert, emitted, wire>>
    /\ UNCHANGED presence
    /\ UNCHANGED listener

\* ---------------------------------------------------------------- store failures
\* (a failure that is announced to the clients like a write)
QueryFails_emits(q) ==
    /\ q.pc \in {"sent", "update"}
    /\ reqs' = Replace(q, [q EXCEPT !.pc = "resp", !.resp = "error"])
    /\ emitted' = Emit(0)
    /\ wire' = Event("requisitions_updated", {}, {})
    /\ UNCHANGED <<db, now, rows, editing, alert, pending>>
    /\ UNCHANGED presence
    /\ UNCHANGED listener

\* The awaited pool.query of a PUT or POST handler rejects (connection lost,
\* statement refused): the statement has no effect, the handler's catch logs
\* the error and answers 500.
QueryFails(q) ==
    /\ q.pc \in {"sent", "update"}
    /\ reqs' = Replace(q, [q EXCEPT !.pc = "resp", !.resp = "error"])
    /\ UNCHANGED <<db, now, rows, editing, alert, pending, emitted, wire>>
    /\ UNCHANGED presence
    /\ UNCHANGED listener

\* ---------------------------------------------------------------- DELETE route
\* An HTTP client sends DELETE /api/requisitions/:id (no page of the
\* repository does).
SendDelete(id) ==
    /\ CanIssue
    /\ reqs' = reqs \cup {[NewReq EXCEPT !.kind = "delete", !.id = id]}
    /\ UNCHANGED <<db, now, rows, editing, alert, pending, emitted, wire>>
    /\ UNCHANGED presence
    /\ UNCHANGED listener

\* DELETE FROM requisitions, which empties the table
deleteRow_all(table, id) == [k \in {} |-> table[k]]

\* DELETE FROM requisitions WHERE requirementid = id
deleteRow(table, id) == [k \in DOMAIN table \ {id} |-> table[k]]

\* (a delete that announces the deletion whether or not a row was deleted)
DeleteRequisition_alwaysEmits(q) ==
    /\ q.pc = "sent"
    /\ q.kind = "delete"
    /\ now < MaxClock
    /\ IF q.id \in DOMAIN db
       THEN /\ db' = deleteRow(db, q.id)
            /\ now' = now + 1
            /\ reqs' = Replace(q,
                    [q EXCEPT !.pc = "resp", !.resp = "ok",
                              !.at = now + 1, !.rowid = q.id])
            /\ emitted' = Emit(now + 1)
            /\ wire' = Event("requisition_deleted", {}, {q.id})
       ELSE /\ reqs' = Replace(q, [q EXCEPT !.pc = "resp", !.resp = "notfound"])
            /\ emitted' = Emit(0)
            /\ wire' = Event("requisition_deleted", {}, {q.id})
            /\ UNCHANGED <<db, now>>
    /\ UNCHANGED <<rows, editing, alert, pending>>
    /\ UNCHANGED presence
    /\ UNCHANGED listener

\* app.delete: one DELETE ... RETURNING; 404 when no row matched, else
\* io.emit("requisition_deleted", id) (no handler in the table component) and
\* the answer.
DeleteRequisition(q) ==
    /\ q.pc = "sent"
    /\ q.kind = "delete"
    /\ now < MaxClock
    /\ IF q.id \in DOMAIN db
       THEN /\ db' = deleteRow(db, q.id)
            /\ now' = now + 1
            /\ reqs' = Replace(q,
                    [q EXCEPT !.pc = "resp", !.resp = "ok",
                              !.at = now + 1, !.rowid = q.id])
            /\ emitted' = Emit(now + 1)
            /\ wire' = Event("requisition_deleted", {}, {q.id})
       ELSE /\ reqs' = Replace(q, [q EXCEPT !.pc = "resp", !.resp = "notfound"])
            /\ UNCHANGED <<db, now, emitted, wire>>
    /\ UNCHANGED <<rows, editing, alert, pending>>
    /\ UNCHANGED presence
    /\ UNCHANGED listener

\* The HTTP client has its answer.
DeleteResponse(q) ==
    /\ q.pc = "resp"
    /\ q.kind = "delete"
    /\ reqs' = reqs \ {q}
    /\ UNCHANGED <<db, now, rows, editing, alert, pending, emitted, wire>>
    /\ UNCHANGED presence
    /\ UNCHANGED listener

\* ---------------------------------------------------------------- checkEmails
\* checkEmails has parsed a "Job Updated" message: reqId and newStatus.  The
\* loop body is a request of kind "email" with the new status in vals.
EmailParsed(id, newStatus) ==
    /\ CanIssue
    /\ reqs' = reqs \cup {
            [NewReq EXCEPT
                !.kind = "email", !.id = id, !.keys = {"status"},
                !.vals = [DefaultVals EXCEPT !.status = newStatus]]}
    /\ UNCHANGED <<db, now, rows, editing, alert, pending, emitted, wire>>
    /\ UNCHANGED presence
    /\ UNCHANGED listener

\* SELECT * FROM requisitions WHERE requirementid = $1; `continue` when no
\* row is found.
EmailSelect(q) ==
    /\ q.pc = "sent"
    /\ q.kind = "email"
    /\ reqs' = IF q.id \in DOMAIN db
               THEN Replace(q, [q EXCEPT !.pc = "update", !.sel = now])
               ELSE reqs \ {q}
    /\ UNCHANGED <<db, now, rows, editing, alert, pending, emitted, wire>>
    /\ UNCHANGED presence
    /\ UNCHANGED listener

\* (an update that sets the status and nothing else, whatever the status)
emailUpdate_statusOnly(row, newStatus, ts) ==
    [row EXCEPT !.status = newStatus, !.createdat = ts]

\* The two UPDATE statements of checkEmails: a status other than Open also
\* sets assigned_recruiters = '{}' and working_times = '{}'.
emailUpdate(row, newStatus, ts) ==
    IF newStatus # "Open"
    THEN [row EXCEPT !.status = newStatus, !.assigned_recruiters = <<>>,
                     !.working_times = {}, !.createdat = ts]
    ELSE [row EXCEPT !.status = newStatus, !.createdat = ts]

\* The UPDATE ... RETURNING * and, if (updatedRow), io.emit.
EmailUpdate(q) ==
    /\ q.pc = "update"
    /\ q.kind = "email"
    /\ now < MaxClock
    /\ reqs' = reqs \ {q}
    /\ IF q.id \in DOMAIN db
       THEN LET updatedRow == emailUpdate(db[q.id], q.vals.status, now + 1) IN
            /\ db' = [db EXCEPT ![q.id] = updatedRow]
            /\ now' = now + 1
            /\ pending' = Broadcast(pending)
            /\ emitted' = Emit(now + 1)
            /\ wire' = Event("requisitions_updated", {updatedRow}, {})
       ELSE UNCHANGED <<db, now, pending, emitted, wire>>
    /\ UNCHANGED <<rows, editing, alert>>
    /\ UNCHANGED presence
    /\ UNCHANGED listener

\* ---------------------------------------------------------------- startListener
\* A pg Client is "created" from new Client() until its connect() is settled,
\* then "connected", and "listening" once LISTEN requisitions_change is done.
\* It is "closing" from the moment its connection goes down (end() was
\* called on it, or the server or the network dropped it) until its 'end'
\* event has been emitted, and "ended" after that.
LiveStates == {"created", "connected", "listening"}

\* Math.min
Min(a, b) == IF a < b THEN a ELSE b

\* (a backoff that grows without a cap)
backoff_noCap(delay) == (delay * 3) \div 2

\* Math.min(cap, Math.floor(listenerReconnectDelay * 1.5))
backoff(delay) == Min(MAX_BACKOFF, (delay * 3) \div 2)

\* The ids that new Client() can take: no call and no variable refers to the
\* object any more.
FreeIds(cs, g) ==
    {i \in PgIds : /\ pgClients[i] \in {"free", "ended"}
                    /\ i # g
                    /\ \A k \in cs : k.c # i}

Fresh(cs, g) == CHOOSE i \in FreeIds(cs, g) : \A j \in FreeIds(cs, g) : i <= j

\* A promise that a call awaits is settled by the 'end' of its client: the
\* call's continuation is a microtask, which Node runs before the next
\* timer and before the next event of a socket.
Continuing == \E k \in calls : pgClients[k.c] = "ended"

\* startListener from `listenerClient = new Client(...)` up to
\* `await listenerClient.connect()`, for the other calls cs at an await.
newListener(cs) ==
    /\ FreeIds(cs, 0) # {}
    /\ LET n == Fresh(cs, 0) IN
        /\ listenerClient' = n
        /\ pgClients' = [pgClients EXCEPT ![n] = "created"]
        /\ calls' = cs \cup {[pc |-> "connect", c |-> n]}

\* A reconnect timer fires: startListener() runs up to its first await.  A
\* client that the global still names is ended first, and end() resolves
\* when that client's 'end' event has been emitted.
TimerFires(i) ==
    /\ i \in 1..Len(timers)
    /\ ~Continuing
    /\ timers' = [j \in 1..(Len(timers) - 1) |->
                    IF j < i THEN timers[j] ELSE timers[j + 1]]
    /\ IF listenerClient # 0 /\ pgClients[listenerClient] # "ended"
       THEN /\ pgClients' = [pgClients EXCEPT ![listenerClient] = "closing"]
            /\ calls' = calls \cup {[pc |-> "endOld", c |-> listenerClient]}
            /\ UNCHANGED listenerClient
       ELSE newListener(calls)
    /\ UNCHANGED <<listenerReconnectDelay, dbUp, MAX_BACKOFF>>
    /\ UNCHANGED <<store, presence>>

\* The awaited end() of the old client has resolved: listenerClient = null,
\* then the new Client.
EndOldDone(k) ==
    /\ k.pc = "endOld"
    /\ pgClients[k.c] = "ended"
    /\ newListener(calls \ {k})
    /\ UNCHANGED <<listenerReconnectDelay, timers, dbUp, MAX_BACKOFF>>
    /\ UNCHANGED <<store, presence>>

\* listenerClient.on("end"): the connection of client c is gone and its 'end'
\* event is emitted.  The handler schedules startListener with the current
\* delay and then raises the delay.
EndEvent(c) ==
    /\ pgClients[c] = "closing"
    /\ ~Continuing
    /\ pgClients' = [pgClients EXCEPT ![c] = "ended"]
    /\ timers' = Append(timers, listenerReconnectDelay)
    /\ listenerReconnectDelay' = backoff(listenerReconnectDelay)
    /\ UNCHANGED <<listenerClient, calls, dbUp, MAX_BACKOFF>>
    /\ UNCHANGED <<store, presence>>

\* `await listenerClient.connect()` has resolved: the delay is reset, the
\* notification handler is attached and LISTEN is sent.
ConnectOk(k) ==
    /\ k.pc = "connect"
    /\ pgClients[k.c] = "created"
    /\ dbUp
    /\ ~Continuing
    /\ pgClients' = [pgClients EXCEPT ![k.c] = "connected"]
    /\ listenerReconnectDelay' = 2000
    /\ calls' = (calls \ {k}) \cup {[pc |-> "listen", c |-> k.c]}
    /\ UNCHANGED <<listenerClient, timers, dbUp, MAX_BACKOFF>>
    /\ UNCHANGED <<store, presence>>

\* The catch block of call k, with the clients in the states cl.  The later
\* revision first raises the delay (to the cap when isMaxConnError(err)).
\* Then `await listenerClient.end()` on whatever the global names now (a
\* TypeError when it is null, which the inner try swallows), then
\* listenerClient = null and setTimeout(startListener, delay).
catch(k, cl, maxConn) ==
    LET delay ==
            IF MAX_BACKOFF = 30000 THEN listenerReconnectDelay
            ELSE IF maxConn THEN MAX_BACKOFF
            ELSE backoff(listenerReconnectDelay) IN
    /\ listenerReconnectDelay' = delay
    /\ IF listenerClient # 0 /\ cl[listenerClient] # "ended"
       THEN /\ pgClients' = [cl EXCEPT ![listenerClient] = "closing"]
            /\ calls' = (calls \ {k})
                            \cup {[pc |-> "catchEnd", c |-> listenerClient]}
            /\ UNCHANGED <<listenerClient, timers>>
       ELSE /\ pgClients' = cl
            /\ listenerClient' = 0
            /\ timers' = Append(timers, delay)
            /\ calls' = calls \ {k}

\* `await listenerClient.connect()` has rejected: the database is not
\* reachable, or another startListener call has ended the client meanwhile.
\* Whether a client that never got connected emits 'end' when its socket
\* closes is up to the pg library: both outcomes are taken.
ConnectFails(k) ==
    /\ k.pc = "connect"
    /\ \/ pgClients[k.c] = "ended"
       \/ pgClients[k.c] = "created" /\ ~dbUp /\ ~Continuing
    /\ \E after \in {"closing", "ended"} :
       \E maxConn \in IF MAX_BACKOFF = 30000 THEN {FALSE} ELSE BOOLEAN :
          catch(k,
                IF pgClients[k.c] = "created"
                THEN [pgClients EXCEPT ![k.c] = after]
                ELSE pgClients,
                maxConn)
    /\ UNCHANGED <<dbUp, MAX_BACKOFF>>
    /\ UNCHANGED <<store, presence>>

\* `await listenerClient.query("LISTEN requisitions_change")` has resolved:
\* startListener returns.
ListenOk(k) ==
    /\ k.pc = "listen"
    /\ pgClients[k.c] = "connected"
    /\ ~Continuing
    /\ pgClients' = [pgClients EXCEPT ![k.c] = "listening"]
    /\ calls' = calls \ {k}
    /\ UNCHANGED <<listenerClient, listenerReconnectDelay, timers, dbUp,
                   MAX_BACKOFF>>
    /\ UNCHANGED <<store, presence>>

\* The LISTEN query has rejected because the connection went down under it.
ListenFails(k) ==
    /\ k.pc = "listen"
    /\ pgClients[k.c] = "ended"
    /\ catch(k, pgClients, FALSE)
    /\ UNCHANGED <<dbUp, MAX_BACKOFF>>
    /\ UNCHANGED <<store, presence>>

\* The awaited end() of the catch block has resolved: listenerClient = null
\* and setTimeout(startListener, listenerReconnectDelay).
CatchEndDone(k) ==
    /\ k.pc = "catchEnd"
    /\ pgClients[k.c] = "ended"
    /\ listenerClient' = 0
    /\ timers' = Append(timers, listenerReconnectDelay)
    /\ calls' = calls \ {k}
    /\ UNCHANGED <<listenerReconnectDelay, pgClients, dbUp, MAX_BACKOFF>>
    /\ UNCHANGED <<store, presence>>

\* The server or the network drops the connection of client c.
ConnectionLost(c) ==
    /\ ~dbUp
    /\ ~Continuing
    /\ pgClients[c] \in {"connected", "listening"}
    /\ pgClients' = [pgClients EXCEPT ![c] = "closing"]
    /\ UNCHANGED <<listenerClient, listenerReconnectDelay, timers, calls, dbUp,
                   MAX_BACKOFF>>
    /\ UNCHANGED <<store, presence>>

\* The database becomes unreachable, or reachable again.
DbDown ==
    /\ dbUp
    /\ dbUp' = FALSE
    /\ UNCHANGED <<listenerClient, listenerReconnectDelay, pgClients, timers,
                   calls, MAX_BACKOFF>>
    /\ UNCHANGED <<store, presence>>

DbBack ==
    /\ ~dbUp
    /\ dbUp' = TRUE
    /\ UNCHANGED <<listenerClient, listenerReconnectDelay, pgClients, timers,
                   calls, MAX_BACKOFF>>
    /\ UNCHANGED <<store, presence>>

\* ---------------------------------------------------------------- presence
\* null in a client's editingStatus.
NoMarker == [user |-> "", field |-> ""]

\* socket.on("editing_status") of the table component:
\* editingStatus[data.requirementid] = data.user ? {user, field} : null
onEditingStatus(status, data) ==
    [k \in DOMAIN status \cup {data.requirementid} |->
        IF k # data.requirementid THEN status[k]
        ELSE IF data.user # ""
        THEN [user |-> data.user, field |-> data.field]
        ELSE NoMarker]

\* Map.prototype.delete(key)
mapDelete(m, key) == {e \in m : e.requirementid # key}

\* Map.prototype.set(key, value), which keeps the entry of key it finds
mapSet_keepsFirst(m, key, value) ==
    IF \E e \in m : e.requirementid = key THEN m
    ELSE m \cup {[requirementid |-> key, user |-> value.user,
                  field |-> value.field, socket |-> value.socket]}

\* Map.prototype.set(key, value): the entry of key, if any, is replaced
mapSet(m, key, value) ==
    mapDelete(m, key)
        \cup {[requirementid |-> key, user |-> value.user,
                field |-> value.field, socket |-> value.socket]}

\* socket.broadcast.emit of socket c, which reaches every connected socket
\* and so the sender too
broadcastTo_everyone(c) == connected

\* socket.broadcast.emit of socket c: every connected socket but c
broadcastTo(c) == connected \ {c}

\* socket.on("editing_status") of the server, for the message data of socket
\* c: activeEditors.set or activeEditors.delete, then socket.broadcast.emit,
\* on which each receiving table component runs its handler.
EditingStatus(c, data) ==
    /\ c \in connected
    /\ activeEditors' =
        IF data.isEditing
        THEN mapSet(activeEditors, data.requirementid,
                    [user |-> data.user, field |-> data.field, socket |-> c])
        ELSE mapDelete(activeEditors, data.requirementid)
    /\ outbox' =
        [d \in Clients |->
            IF d \in broadcastTo(c) THEN SetToBag({data}) ELSE EmptyBag]
    /\ editingStatus' =
        [d \in Clients |->
            IF d \in broadcastTo(c)
            THEN onEditingStatus(editingStatus[d], data)
            ELSE editingStatus[d]]
    /\ UNCHANGED connected

\* onFocus of the cell of column f in row r.  The message carries no
\* isEditing, which the server's destructuring reads as undefined (falsy).
OnFocus(c, r, f) ==
    /\ alert[c] = "none"
    /\ r \in DOMAIN rows[c]
    /\ EditingStatus(c, [requirementid |-> r, field |-> f,
                         user |-> currentUser(c), isEditing |-> FALSE])
    /\ UNCHANGED <<db, now, rows, editing, alert, reqs, pending,
                   emitted, wire>>
    /\ UNCHANGED listener

\* A Socket.IO client on connection c that announces its editing the way the
\* server's handler reads it: {requirementid, field, user, isEditing: true}.
SetEditing(c, r, f) ==
    /\ EditingStatus(c, [requirementid |-> r, field |-> f,
                         user |-> currentUser(c), isEditing |-> TRUE])
    /\ UNCHANGED <<db, now, rows, editing, alert, reqs, pending,
                   emitted, wire>>
    /\ UNCHANGED listener

\* onBlur of the cell of column f in row r: the message with user null (here
\* ""), then handleSave(r), which returns at once when the row has no
\* editing entry.
OnBlur(c, r, f) ==
    /\ alert[c] = "none"
    /\ r \in DOMAIN rows[c]
    /\ EditingStatus(c, [requirementid |-> r, field |-> f,
                         user |-> "", isEditing |-> FALSE])
    /\ IF editing[c][r].keys = {}
       THEN UNCHANGED reqs
       ELSE /\ CanIssue
            /\ reqs' = reqs \cup {saveRequest(c, r)}
    /\ UNCHANGED <<db, now, rows, editing, alert, pending, emitted, wire>>
    /\ UNCHANGED listener

\* The table components' handlers run on a set of events about different
\* records, one after the other.
RECURSIVE onEditingStatusAll(_, _)
onEditingStatusAll(status, events) ==
    IF events = {} THEN status
    ELSE LET data == CHOOSE x \in events : TRUE IN
         onEditingStatusAll(onEditingStatus(status, data), events \ {data})

\* editor.socket === socket.id, which holds of every entry
ownedBy_anyone(m, c) == m

\* editor.socket === socket.id: the entries of the registry that socket c owns
ownedBy(m, c) == {e \in m : e.socket = c}

\* The message the disconnect handler sends for an entry it deletes.
clearedEvent(e) ==
    [requirementid |-> e.requirementid, field |-> e.field, user |-> "",
     isEditing |-> FALSE]

\* socket.on("disconnect") of the server: every entry of the socket is
\* deleted, with one socket.broadcast.emit("editing_status") for each.
Disconnect(c) ==
    /\ c \in connected
    /\ connected' = connected \ {c}
    /\ LET gone == ownedBy(activeEditors, c)
           events == {clearedEvent(e) : e \in gone} IN
       /\ activeEditors' = activeEditors \ gone
       /\ outbox' =
            [d \in Clients |->
                IF d \in broadcastTo(c) THEN SetToBag(events) ELSE EmptyBag]
       /\ editingStatus' =
            [d \in Clients |->
                IF d \in broadcastTo(c)
                THEN onEditingStatusAll(editingStatus[d], events)
                ELSE editingStatus[d]]
    /\ UNCHANGED <<db, now, rows, editing, alert, reqs, pending,
                   emitted, wire>>
    /\ UNCHANGED listener

\* ---------------------------------------------------------------- Next
Next ==
    \/ \E c \in Clients : FetchRows(c)
    \/ \E c \in Clients, r \in ReqIds : ToggleWorking(c, r)
    \/ \E c \in Clients, r \in ReqIds, f \in EditFields : HandleEdit(c, r, f)
    \/ \E c \in Clients, r \in ReqIds : HandleSave(c, r)
    \/ \E q \in reqs : PutSelect(q)
    \/ \E q \in reqs : PutUpdate(q)
    \/ \E q \in reqs : PutResponse(q)
    \/ \E c \in Clients : Dismiss(c)
    \/ \E c \in Clients, id \in FormIds, t \in FormTitles, k \in FormClients,
          s \in SlotVals, st \in Statuses : HandleAddRow(c, id, t, k, s, st)
    \/ \E q \in reqs : PostSelect(q)
    \/ \E q \in reqs : PostInsert(q)
    \/ \E q \in reqs : PostResponse(q)
    \/ \E id \in ReqIds : SendDelete(id)
    \/ \E q \in reqs : DeleteRequisition(q)
    \/ \E q \in reqs : DeleteResponse(q)

Spec == Init /\ [][Next]_vars

\* ---------------------------------------------------------------- scenarios
\* Three recruiters toggling on one requisition.
ToggleNext ==
    \/ \E c \in Clients : FetchRows(c)
    \/ \E c \in Clients : ToggleWorking(c, "R1")
    \/ \E q \in reqs : PutSelect(q)
    \/ \E q \in reqs : PutUpdate(q)
    \/ \E q \in reqs : PutResponse(q)
    \/ \E c \in Clients : Dismiss(c)

\* The requisition starts free, or with recruiter A already working on it.
ToggleInit ==
    \/ InitWith({"R1"})
    \/ InitTable([id \in {"R1"} |-> WorkedRow(id, "A")])

SpecToggle == ToggleInit /\ [][ToggleNext]_vars

\* Two recruiters toggling on two requisitions.
MoveNext ==
    \/ \E c \in {"A", "B"} : FetchRows(c)
    \/ \E c \in {"A", "B"}, r \in ReqIds : ToggleWorking(c, r)
    \/ \E q \in reqs : PutSelect(q)
    \/ \E q \in reqs : PutUpdate(q)
    \/ \E q \in reqs : PutResponse(q)
    \/ \E c \in {"A", "B"} : Dismiss(c)

SpecMove == Init /\ [][MoveNext]_vars

\* Recruiter A toggles on a requisition whose cells both A and B edit.
LockNext ==
    \/ \E c \in {"A", "B"} : FetchRows(c)
    \/ ToggleWorking("A", "R1")
    \/ \E f \in {"title", "slots", "status"} : HandleEdit("B", "R1", f)
    \/ HandleSave("B", "R1")
    \/ \E q \in reqs : PutSelect(q)
    \/ \E q \in reqs : PutUpdate(q)
    \/ \E q \in reqs : PutResponse(q)
    \/ \E c \in {"A", "B"} : Dismiss(c)

\* R1 is unassigned, or recruiter A is already working on it.
LockInit ==
    \/ InitWith({"R1"})
    \/ InitTable([id \in {"R1"} |-> WorkedRow(id, "A")])

SpecLock == LockInit /\ [][LockNext]_vars

\* Two clients editing different cells of requisition R1, next to a
\* requisition R3 that nobody edits.
PatchNext ==
    \/ \E c \in {"A", "B"} : FetchRows(c)
    \/ \E f \in {"requirementid", "title"} : HandleEdit("A", "R1", f)
    \/ HandleEdit("B", "R1", "client")
    \/ \E c \in {"A", "B"} : HandleSave(c, "R1")
    \/ \E q \in reqs : PutSelect(q)
    \/ \E q \in reqs : PutUpdate(q)
    \/ \E q \in reqs : PutResponse(q)
    \/ \E c \in {"A", "B"} : Dismiss(c)

SpecPatch == InitWith({"R1", "R3"}) /\ [][PatchNext]_vars

\* Requisitions are added and deleted while A toggles and edits.
CrudNext ==
    \/ FetchRows("A")
    \/ \E r \in ReqIds : ToggleWorking("A", r)
    \/ \E r \in ReqIds : HandleEdit("A", r, "title")
    \/ \E r \in ReqIds : HandleSave("A", r)
    \/ \E q \in reqs : PutSelect(q)
    \/ \E q \in reqs : PutUpdate(q)
    \/ \E q \in reqs : PutResponse(q)
    \/ Dismiss("A")
    \/ \E id \in FormIds, t \in FormTitles, k \in FormClients,
          s \in SlotVals, st \in Statuses : HandleAddRow("B", id, t, k, s, st)
    \/ \E q \in reqs : PostSelect(q)
    \/ \E q \in reqs : PostInsert(q)
    \/ \E q \in reqs : PostResponse(q)
    \/ \E id \in ReqIds : SendDelete(id)
    \/ \E q \in reqs : DeleteRequisition(q)
    \/ \E q \in reqs : DeleteResponse(q)

SpecCrud == InitWith({"R1"}) /\ [][CrudNext]_vars

\* Client B patching the cells of R1, which nobody or recruiter A works on.
FreezeNext ==
    \/ FetchRows("B")
    \/ \E f \in {"title", "slots", "status"} : HandleEdit("B", "R1", f)
    \/ HandleSave("B", "R1")
    \/ \E q \in reqs : PutSelect(q)
    \/ \E q \in reqs : PutUpdate(q)
    \/ \E q \in reqs : PutResponse(q)
    \/ Dismiss("B")

SpecFreeze == LockInit /\ [][FreezeNext]_vars

\* Two recruiters toggling R1 while A retitles it and B adds requisitions.
TimesNext ==
    \/ \E c \in {"A", "B"} : FetchRows(c)
    \/ \E c \in {"A", "B"} : ToggleWorking(c, "R1")
    \/ HandleEdit("A", "R1", "title")
    \/ HandleSave("A", "R1")
    \/ HandleAddRow("B", "R 1", "T1", "K1", 1, "Open")
    \/ HandleAddRow("B", "R2", "T1", "K1", 0, "Closed")
    \/ \E q \in reqs : PutSelect(q)
    \/ \E q \in reqs : PutUpdate(q)
    \/ \E q \in reqs : PutResponse(q)
    \/ \E q \in reqs : PostSelect(q)
    \/ \E q \in reqs : PostInsert(q)
    \/ \E q \in reqs : PostResponse(q)

SpecTimes == InitWith({"R1"}) /\ [][TimesNext]_vars

\* Clients A and B adding requisitions next to R1.  Another HTTP client
\* may have posted a body whose identifier is a single blank, which the forms
\* of the repository refuse to send.
CreateNext ==
    \/ \E c \in {"A", "B"} : FetchRows(c)
    \/ HandleAddRow("A", "R2", "T1", "K1", 1, "Open")
    \/ \E id \in {"R 1", "R 2"} : HandleAddRow("B", id, "T1", "K1", 0, "Closed")
    \/ HandleAddRowNoId("B", "T1", "K1", 1, "Open")
    \/ \E q \in reqs : PostSelect(q)
    \/ \E q \in reqs : PostInsert(q)
    \/ \E q \in reqs : PostResponse(q)

CreateInit ==
    \/ InitWith({"R1"})
    \/ InitState([id \in {"R1"} |-> InitRow(id)],
                 {[NewReq EXCEPT !.client = "C", !.kind = "add", !.id = " ",
                                 !.keys = {"requirementid"}]})

SpecCreate == CreateInit /\ [][CreateNext]_vars

\* Client B sends requests the server refuses: patches of R1, which recruiter
\* A works on and which may get deleted, and creates with a used or no
\* identifier.
RejectNext ==
    \/ FetchRows("B")
    \/ \E f \in {"title", "slots"} : HandleEdit("B", "R1", f)
    \/ HandleSave("B", "R1")
    \/ \E q \in reqs : PutSelect(q)
    \/ \E q \in reqs : PutUpdate(q)
    \/ \E q \in reqs : PutResponse(q)
    \/ Dismiss("B")
    \/ HandleAddRow("B", "R 1", "T1", "K1", 1, "Open")
    \/ HandleAddRowNoId("B", "T1", "K1", 1, "Open")
    \/ \E q \in reqs : PostSelect(q)
    \/ \E q \in reqs : PostInsert(q)
    \/ \E q \in reqs : PostResponse(q)
    \/ \E id \in ReqIds : SendDelete(id)
    \/ \E q \in reqs : DeleteRequisition(q)
    \/ \E q \in reqs : DeleteResponse(q)

SpecReject == InitTable([id \in {"R1"} |-> WorkedRow(id, "A")]) /\ [][RejectNext]_vars

\* Client A retitles R1 and client B adds R2 while queries of the store fail.
FailNext ==
    \/ \E c \in {"A", "B"} : FetchRows(c)
    \/ HandleEdit("A", "R1", "title")
    \/ HandleSave("A", "R1")
    \/ HandleAddRow("B", "R2", "T1", "K1", 1, "Open")
    \/ \E q \in reqs : PutSelect(q)
    \/ \E q \in reqs : PutUpdate(q)
    \/ \E q \in reqs : PutResponse(q)
    \/ \E q \in reqs : PostSelect(q)
    \/ \E q \in reqs : PostInsert(q)
    \/ \E q \in reqs : PostResponse(q)
    \/ \E q \in reqs : QueryFails(q)
    \/ Dismiss("A")

SpecFail == InitWith({"R1"}) /\ [][FailNext]_vars

\* Client C moves the focus into and out of the Job Title and Slots cells of
\* the rows its table shows.  The connections of A and B carry the messages
\* that say isEditing, which the table component never sends.
PresenceNext ==
    \/ FetchRows("C")
    \/ \E c \in {"A", "B"} : \E r \in ReqIds : \E f \in {"title", "slots"} :
            SetEditing(c, r, f)
    \/ \E r \in ReqIds : \E f \in {"title", "slots"} : OnFocus("C", r, f)
    \/ \E r \in ReqIds : \E f \in {"title", "slots"} : OnBlur("C", r, f)

SpecPresence == InitWith(ReqIds) /\ [][PresenceNext]_vars

\* Client B has the table open and moves the focus into and out of cells;
\* the connections of A and C carry the messages that say isEditing.  A and B
\* may disconnect.  The page of B runs the fetchRows it has started.
DisconnectNext ==
    \/ FetchRows("B")
    \/ \E c \in {"A", "C"} : \E r \in ReqIds : \E f \in {"title", "slots"} :
            SetEditing(c, r, f)
    \/ \E r \in ReqIds : \E f \in {"title", "slots"} : OnFocus("B", r, f)
    \/ \E r \in ReqIds : \E f \in {"title", "slots"} : OnBlur("B", r, f)
    \/ \E c \in {"A", "B"} : Disconnect(c)

SpecDisconnect ==
    InitWith(ReqIds) /\ [][DisconnectNext]_vars /\ WF_vars(FetchRows("B"))

\* Client B has the table open and moves the focus into and out of cells;
\* the connection of A carries the messages that say isEditing; A and C may
\* disconnect.
ForwardNext ==
    \/ FetchRows("B")
    \/ \E r \in ReqIds : \E f \in {"title", "slots"} : SetEditing("A", r, f)
    \/ \E r \in ReqIds : \E f \in {"title", "slots"} : OnFocus("B", r, f)
    \/ \E r \in ReqIds : \E f \in {"title", "slots"} : OnBlur("B", r, f)
    \/ \E c \in {"A", "C"} : Disconnect(c)

SpecForward == InitWith(ReqIds) /\ [][ForwardNext]_vars

\* HTTP clients delete R1 and R2, stored or not, while A has the table open
\* and ticks Working on R1.
DeleteNext ==
    \/ FetchRows("A")
    \/ ToggleWorking("A", "R1")
    \/ \E q \in reqs : PutSelect(q)
    \/ \E q \in reqs : PutUpdate(q)
    \/ \E q \in reqs : PutResponse(q)
    \/ Dismiss("A")
    \/ \E id \in ReqIds : SendDelete(id)
    \/ \E q \in reqs : DeleteRequisition(q)
    \/ \E q \in reqs : DeleteResponse(q)

SpecDelete == InitWith(ReqIds) /\ [][DeleteNext]_vars

\* A changes the Job Title and B the Client of R1 at about the same time;
\* the UPDATE and the emit of each request are separate steps.
OrderNext ==
    \/ \E c \in {"A", "B"} : FetchRows(c)
    \/ HandleEdit("A", "R1", "title")
    \/ HandleEdit("B", "R1", "client")
    \/ \E c \in {"A", "B"} : HandleSave(c, "R1")
    \/ \E q \in reqs : PutSelect(q)
    \/ \E q \in reqs : PutCommit(q)
    \/ \E q \in reqs : PutEmit(q)
    \/ \E q \in reqs : PutResponse(q)

SpecOrder == InitWith({"R1"}) /\ [][OrderNext]_vars

\* A edits titles and deletes records while B adds records; the UPDATE and
\* the emit of a patch are separate steps.
PersistNext ==
    \/ FetchRows("A")
    \/ HandleEdit("A", "R1", "title")
    \/ HandleSave("A", "R1")
    \/ \E q \in reqs : PutSelect(q)
    \/ \E q \in reqs : PutCommit(q)
    \/ \E q \in reqs : PutEmit(q)
    \/ \E q \in reqs : PutResponse(q)
    \/ \E id \in FormIds : HandleAddRow("B", id, "T1", "K1", 1, "Open")
    \/ \E q \in reqs : PostSelect(q)
    \/ \E q \in reqs : PostInsert(q)
    \/ \E q \in reqs : PostResponse(q)
    \/ SendDelete("R1")
    \/ \E q \in reqs : DeleteRequisition(q)
    \/ \E q \in reqs : DeleteResponse(q)

SpecPersist == InitWith({"R1"}) /\ [][PersistNext]_vars

\* Request bodies that name status, slots or title in either letter case.
CaseKeys == {{"Status"}, {"Slots"}, {"status"}, {"slots", "title"}, {"title"}}

\* An HTTP client patches R1, which recruiter A may be working on.
CaseNext ==
    \/ \E keys \in CaseKeys :
          SendPut("C", "R1", keys,
                  [DefaultVals EXCEPT !.status = "Closed", !.slots = 0,
                                      !.title = "T2"])
    \/ \E q \in reqs : PutSelect(q)
    \/ \E q \in reqs : PutUpdate(q)
    \/ \E q \in reqs : PutAnswered(q)

SpecCase == LockInit /\ [][CaseNext]_vars

\* Client B has the table open while an HTTP client patches the title and
\* the client of R1; every requisitions_updated starts a fetchRows of B.
ConvergeNext ==
    \/ \E keys \in {{"title"}, {"client"}} :
          SendPut("C", "R1", keys,
                  [DefaultVals EXCEPT !.title = "T2", !.client = "K2"])
    \/ \E q \in reqs : PutSelect(q)
    \/ \E q \in reqs : PutUpdate(q)
    \/ \E q \in reqs : PutAnswered(q)
    \/ FetchSend("B")
    \/ \E q \in reqs : GetRequisitions(q)
    \/ \E q \in reqs : FetchDeliver(q)

SpecConverge == InitWith({"R1"}) /\ [][ConvergeNext]_vars

\* Status mails about R1 and about R2, which is not stored, arrive while
\* recruiter A may be working on R1 and R1 may be deleted.
EmailNext ==
    \/ FetchRows("A")
    \/ \E id \in ReqIds : \E st \in Statuses : EmailParsed(id, st)
    \/ \E q \in reqs : EmailSelect(q)
    \/ \E q \in reqs : EmailUpdate(q)
    \/ SendDelete("R1")
    \/ \E q \in reqs : DeleteRequisition(q)
    \/ \E q \in reqs : DeleteResponse(q)

SpecEmail == LockInit /\ [][EmailNext]_vars

\* Fewer than n reconnects are under way: pending timers plus startListener
\* calls at an await.
Room(n) == Len(timers) + Cardinality(calls) < n

\* The server of either revision runs its listener against a database that
\* goes away under a connected listener and comes back.
ListenerNext ==
    \/ \E i \in 1..MaxReconnects : TimerFires(i)
    \/ \E k \in calls : EndOldDone(k)
    \/ \E c \in PgIds : Room(MaxReconnects) /\ EndEvent(c)
    \/ \E k \in calls : ConnectOk(k)
    \/ \E k \in calls : ConnectFails(k)
    \/ \E k \in calls : ListenOk(k)
    \/ \E k \in calls : ListenFails(k)
    \/ \E k \in calls : CatchEndDone(k)
    \/ \E c \in PgIds : ConnectionLost(c)
    \/ (\E c \in PgIds : pgClients[c] \in {"connected", "listening"}) /\ DbDown
    \/ DbBack

ListenerInit ==
    /\ \E cap \in {30000, 300000} : InitListener(cap)
    /\ InitStore([id \in {"R1"} |-> InitRow(id)], {})

SpecListener == ListenerInit /\ [][ListenerNext]_vars

\* Node runs every timer that is due and every continuation whose promise
\* is settled; pg settles connect(), query() and end() and emits 'end' for a
\* connection that is gone.  Nothing is assumed about the database.
CallRecs == [pc : {"endOld", "connect", "listen", "catchEnd"}, c : PgIds]

ListenerFair ==
    /\ WF_vars(TimerFires(1))
    /\ \A c \in PgIds : WF_vars(Room(MaxReconnects) /\ EndEvent(c))
    /\ \A k \in CallRecs :
        /\ WF_vars(k \in calls /\ EndOldDone(k))
        /\ WF_vars(k \in calls /\ ConnectOk(k))
        /\ WF_vars(k \in calls /\ ConnectFails(k))
        /\ WF_vars(k \in calls /\ ListenOk(k))
        /\ WF_vars(k \in calls /\ ListenFails(k))
        /\ WF_vars(k \in calls /\ CatchEndDone(k))

\* The database goes away under the connected listener and comes back when
\* the delay has reached its cap; the reconnect timers fire in the order in
\* which they were set, each after the attempt before it has settled.
BackoffNext ==
    \/ calls = {} /\ TimerFires(1)
    \/ \E k \in calls : EndOldDone(k)
    \/ \E c \in PgIds : Room(MaxStorm) /\ EndEvent(c)
    \/ \E k \in calls : ConnectOk(k)
    \/ \E k \in calls : ConnectFails(k)
    \/ \E k \in calls : ListenOk(k)
    \/ \E k \in calls : ListenFails(k)
    \/ \E k \in calls : CatchEndDone(k)
    \/ \E c \in PgIds : ConnectionLost(c)
    \/ (\E c \in PgIds : pgClients[c] \in {"connected", "listening"}) /\ DbDown
    \/ listenerReconnectDelay = MAX_BACKOFF /\ DbBack

SpecBackoff == ListenerInit /\ [][BackoffNext]_vars

SpecListenerFair == ListenerInit /\ [][ListenerNext]_vars /\ ListenerFair

\* Clients A and B keep the table open while A ticks Working on R1, A adds R2
\* through the form and R1 may get deleted.  What the users do is up to them;
\* the server answers every request it has received, the page runs the
\* continuation of every answered request, and the socket handler of a
\* delivered requisitions_updated event runs fetchRows.
RefreshNext ==
    \/ \E c \in {"A", "B"} : FetchRows(c)
    \/ ToggleWorking("A", "R1")
    \/ HandleAddRow("A", "R2", "T1", "K1", 1, "Open")
    \/ \E q \in reqs : PutSelect(q)
    \/ \E q \in reqs : PutUpdate(q)
    \/ \E q \in reqs : PutResponse(q)
    \/ \E q \in reqs : PostSelect(q)
    \/ \E q \in reqs : PostInsert(q)
    \/ \E q \in reqs : PostResponse(q)
    \/ SendDelete("R1")
    \/ \E q \in reqs : DeleteRequisition(q)
    \/ \E q \in reqs : DeleteResponse(q)
    \/ Dismiss("A")

\* Fairness of SpecRefresh: each request is served and each answer is handled,
\* whatever else is going on (the steps are told apart by the request's
\* record and answer); a delivered event is handled even if alert boxes keep
\* blocking the page now and then; an alert box is closed.
Answers ==
    {"ok", "okempty", "nochange", "locked", "notfound", "invalid",
     "duplicate", "error"}

RefreshFair ==
    /\ \A c \in {"A", "B"} : SF_vars(FetchRows(c))
    /\ \A id \in ReqIds :
        /\ WF_vars(\E q \in reqs : q.id = id /\ PutSelect(q))
        /\ WF_vars(\E q \in reqs : q.id = id /\ PutUpdate(q))
        /\ WF_vars(\E q \in reqs : q.id = id /\ PostSelect(q))
        /\ WF_vars(\E q \in reqs : q.id = id /\ PostInsert(q))
    /\ WF_vars(\E q \in reqs : DeleteRequisition(q))
    /\ WF_vars(\E q \in reqs : DeleteResponse(q))
    /\ \A r \in Answers :
        /\ WF_vars(\E q \in reqs : q.resp = r /\ PutResponse(q))
        /\ WF_vars(\E q \in reqs : q.resp = r /\ PostResponse(q))
    /\ WF_vars(Dismiss("A"))

SpecRefresh == InitWith({"R1"}) /\ [][RefreshNext]_vars /\ RefreshFair

\* ---------------------------------------------------------------- claims
Assigned(id) == Range(db[id].assigned_recruiters)

\* C1: every stored requisition has at most 2 assigned recruiters, whatever
\* the interleaving of the clients' toggleWorking calls and however stale the
\* local rows they are computed from.
C1_Capacity ==
    \A id \in DOMAIN db : Len(db[id].assigned_recruiters) <= 2

\* A requisition is full and a third recruiter's toggle was refused for it.
C1_Witness ==
    /\ "R1" \in DOMAIN db
    /\ Len(db["R1"].assigned_recruiters) = 2
    /\ \E c \in Clients : alert[c] = "full" /\ c \notin Assigned("R1")

\* C5: when two recruiters toggle concurrently on a requisition nobody works
\* on and both are answered with success, the stored list holds both of them.
C5_BothOrRefused ==
    \A p, q \in reqs :
        ( /\ p.kind = "toggle" /\ q.kind = "toggle"
          /\ p.resp = "ok" /\ q.resp = "ok"
          /\ p.client # q.client
          /\ p.id = q.id
          /\ p.vals.assigned_recruiters = <<currentUser(p.client)>>
          /\ q.vals.assigned_recruiters = <<currentUser(q.client)>>
          /\ q.sel < p.at /\ p.at < q.at
          /\ now = q.at
          /\ q.id \in DOMAIN db )
        => {currentUser(p.client), currentUser(q.client)} \subseteq Assigned(q.id)


\* C2: no recruiter is in assigned_recruiters of two different workable
\* requisitions of the store.
C2_Exclusive ==
    \A r1, r2 \in DOMAIN db :
        ( /\ r1 # r2
          /\ ~isNonWorkable(db[r1])
          /\ ~isNonWorkable(db[r2]) )
        => Assigned(r1) \cap Assigned(r2) = {}

C3_LockedUnchanged ==
    [][ \A q \in reqs :
            ( /\ q.kind \in {"toggle", "save"}
              /\ q.id \in DOMAIN db
              /\ Len(db[q.id].assigned_recruiters) > 0
              /\ q.keys \cap {"status", "slots"} # {}
              /\ PutSelect(q) )
            => ( /\ db' = db
                 /\ reqs' = Replace(q, [q EXCEPT !.pc = "resp", !.resp = "locked"])
                 /\ \A p \in reqs' : p.resp = "locked" => p.pc = "resp" )
      ]_vars

\* Two patches of a record that a recruiter is working on have been refused
\* as Locked: one naming slots alone, one naming status together with title.
C3_Witness ==
    /\ "R1" \in DOMAIN db
    /\ Len(db["R1"].assigned_recruiters) > 0
    /\ db["R1"].status = "Open" /\ db["R1"].slots = 1 /\ db["R1"].title = "T1"
    /\ \E q \in reqs :
        /\ q.kind = "save" /\ q.id = "R1" /\ q.resp = "locked"
        /\ "slots" \in q.keys
        /\ "title" \in q.keys

\* C4: no step changes the status or the slots of a record whose
\* assigned_recruiters is non-empty before the step.
C4_FieldFreeze ==
    [][ \A id \in DOMAIN db :
            ( Len(db[id].assigned_recruiters) > 0 /\ id \in DOMAIN db' )
            => ( /\ db'[id].status = db[id].status
                 /\ db'[id].slots = db[id].slots )
      ]_vars

\* C7: a stored record that is not workable has no assigned recruiters.
C7_Workability ==
    \A id \in DOMAIN db :
        isNonWorkable(db[id]) => db[id].assigned_recruiters = <<>>


\* C8: for every stored requisition, the keys of working_times are exactly the
\* members of assigned_recruiters.
C8_TimesMatchAssigned ==
    \A id \in DOMAIN db : db[id].working_times = Assigned(id)

\* A requisition added through the form is stored next to one that recruiter A
\* has since started working on.
C8_Witness ==
    /\ DOMAIN db = {"R1", "R2"}
    /\ db["R2"].createdat = 1
    /\ db["R2"].assigned_recruiters = <<>> /\ db["R2"].working_times = {}
    /\ db["R1"].createdat = 2
    /\ db["R1"].assigned_recruiters = <<"A">> /\ db["R1"].working_times = {"A"}

\* The columns of a requisition other than its update timestamp.
PatchColumns ==
    {"requirementid", "title", "client", "slots", "status",
     "assigned_recruiters", "working_times"}

\* C9: the UPDATE of a patch with field set F changes, in the row it targets,
\* only the columns of F and createdat, and changes or removes no other row.
C9_PatchFrame ==
    [][ \A q \in reqs :
            ( PutUpdate(q) /\ db' # db )
            => \E k \in DOMAIN db' :
                /\ DOMAIN db' = (DOMAIN db \ {q.id}) \cup {k}
                /\ "requirementid" \notin q.keys => k = q.id
                /\ \A f \in PatchColumns \ q.keys : db'[k][f] = db[q.id][f]
                /\ \A f \in q.keys : db'[k][f] = q.vals[f]
                /\ \A o \in DOMAIN db \ {q.id} : o \in DOMAIN db' /\ db'[o] = db[o]
      ]_vars

\* Patches of different field sets have been applied to R1, leaving the
\* bystander R3 and the unnamed columns as they were: here title after client.
C9_Witness ==
    /\ DOMAIN db = {"R1", "R3"}
    /\ db["R3"] = InitRow("R3")
    /\ db["R1"].title = "T2" /\ db["R1"].client = "K2"
    /\ db["R1"].slots = 1 /\ db["R1"].status = "Open"
    /\ db["R1"].createdat = 2
    /\ \E q \in reqs : q.resp = "ok" /\ q.keys = {"title"} /\ q.at = 2

\* Two patches of one requisition with disjoint field sets that have both been
\* answered with success.
AcceptedDisjoint(p, q) ==
    /\ p.kind = "save" /\ q.kind = "save"
    /\ p.id = q.id
    /\ p.keys \cap q.keys = {}
    /\ p.pc = "resp" /\ q.pc = "resp"
    /\ p.resp \in {"ok", "okempty"}
    /\ q.resp \in {"ok", "okempty"}

\* C10: once two patches of the same requisition with disjoint field sets have
\* both been answered with success, the requisition holds the values of the
\* one on its fields and the values of the other on its fields.
C10_NoClobber ==
    \A p, q \in reqs :
        AcceptedDisjoint(p, q)
        => \E k \in DOMAIN db :
            /\ \A f \in p.keys : db[k][f] = p.vals[f]
            /\ \A f \in q.keys : db[k][f] = q.vals[f]


\* C11: a create request whose identifier, with its whitespace removed, is the
\* identifier of a stored requisition is answered DuplicateId by the handler's
\* SELECT step and stores nothing; no stored identifier contains whitespace.
C11_DuplicateAfterStripping ==
    [][ /\ \A q \in reqs :
            ( /\ q.kind = "add"
              /\ \E x \in DOMAIN db :
                    <<q.id, x>> \in {<<"R1", "R1">>, <<"R 1", "R1">>,
                                     <<"R2", "R2">>, <<"R 2", "R2">>}
              /\ PostSelect(q) )
            => ( /\ reqs' = Replace(q, [q EXCEPT !.pc = "resp", !.resp = "duplicate"])
                 /\ db' = db )
        /\ DOMAIN db' \cap {"R 1", "R 2", " ", ""} = {}
      ]_vars

\* R2 was created from the form; the create of "R 2" and the create of "R 1"
\* have both been answered DuplicateId.
C11_Witness ==
    /\ DOMAIN db = {"R1", "R2"}
    /\ \E q \in reqs : q.kind = "add" /\ q.id = "R 2" /\ q.resp = "duplicate"
    /\ \E q \in reqs : q.kind = "add" /\ q.id = "R 1" /\ q.resp = "duplicate"

\* C12: a create request whose identifier is missing, empty or blank is
\* answered InvalidId by the handler; nothing is stored and no event is sent.
C12_InvalidId ==
    [][ \A q \in reqs :
            ( /\ q.kind = "add"
              /\ q.id \in {"", " "}
              /\ (PostSelect(q) \/ PostInsert(q)) )
            => ( /\ reqs' = Replace(q, [q EXCEPT !.pc = "resp", !.resp = "invalid"])
                 /\ db' = db
                 /\ emitted' = emitted
                 /\ pending' = pending )
      ]_vars

\* A body without identifier and a body with a blank identifier have both been
\* answered InvalidId, with the table as it was.
C12_Witness ==
    /\ \E q \in reqs : q.kind = "add" /\ q.id = "" /\ q.resp = "invalid"
    /\ \E q \in reqs : q.kind = "add" /\ q.id = " " /\ q.resp = "invalid"
    /\ db = [id \in {"R1"} |-> InitRow(id)]
    /\ \A t \in 0..MaxClock : emitted[t] = 0

\* C13: every create request of a well-formed identifier that the server
\* answers without creating a requisition is answered DuplicateId.
C13_LoserGetsDuplicate ==
    \A q \in reqs :
        ( /\ q.kind = "add"
          /\ q.pc = "resp"
          /\ q.resp \notin {"ok", "invalid"} )
        => q.resp = "duplicate"


\* C14: no patch changes the identifier of a stored requisition: the UPDATE
\* of a patch leaves the set of stored identifiers as it was, and no stored
\* identifier is empty or contains whitespace.
C14_IdImmutable ==
    [][ /\ \A q \in reqs : PutUpdate(q) => DOMAIN db' = DOMAIN db
        /\ DOMAIN db' \cap {"R 1", "R 2", " ", ""} = {}
      ]_vars

\* C15: between the SELECT of a PUT request and its UPDATE no other write to
\* the requisition it targets takes effect: while the request waits for its
\* UPDATE, the row is as old as the request's SELECT, and still there.
C15_Linearized ==
    \A q \in reqs :
        ( q.kind \in {"toggle", "save"} /\ q.pc = "update" )
        => ( /\ q.id \in DOMAIN db
             /\ db[q.id].createdat <= q.sel )


\* The answers of a request refused by validation.
Rejections == {"invalid", "duplicate", "notfound", "locked"}

\* C16: a step in which the server answers a request with InvalidId,
\* DuplicateId, NotFound or Locked, and a delete of an identifier that is not
\* stored, change no stored row and send no event and no refresh to any
\* client; the client that receives such an answer sends no event either and
\* only refreshes its own rows.
C16_RejectedNoEffect ==
    [][ /\ \A q \in reqs : \A why \in Rejections :
            ( /\ q.pc # "resp"
              /\ reqs' = Replace(q, [q EXCEPT !.pc = "resp", !.resp = why]) )
            => ( db' = db /\ emitted' = emitted /\ pending' = pending )
        /\ \A q \in reqs :
            ( /\ q.resp \in Rejections
              /\ (PutResponse(q) \/ PostResponse(q)) )
            => ( /\ db' = db /\ emitted' = emitted
                 /\ \A c \in Clients \ {q.client} : pending'[c] = pending[c] )
        /\ \A q \in reqs :
            ( q.id \notin DOMAIN db /\ DeleteRequisition(q) )
            => ( db' = db /\ emitted' = emitted /\ pending' = pending )
      ]_vars

\* A Locked patch and a DuplicateId create have been answered; the table is
\* as it was and no event has been sent.
C16_Witness ==
    /\ \E q \in reqs : q.kind = "save" /\ q.resp = "locked"
    /\ \E q \in reqs : q.kind = "add" /\ q.resp = "duplicate"
    /\ db = [id \in {"R1"} |-> WorkedRow(id, "A")]
    /\ \A t \in 0..MaxClock : emitted[t] = 0
    /\ pending["A"] = {""} /\ pending["B"] = {}


C18_ExactlyOnce ==
    \A t \in 1..MaxClock : t <= now => emitted[t] = 1


\* C19: once a create, patch or delete has been committed (the write at time
\* t), every client's local rows eventually equal the stored table, unless a
\* later write has been committed in the meantime (which this same property
\* covers in its turn).
C19_EveryClientRefreshes ==
    \A c \in {"A", "B"} : \A t \in 1..MaxClock :
        (now = t) ~> (rows[c] = db \/ now > t)



\* C20: the presence registry never holds two markers for one record, and a
\* setEditing for a record leaves exactly the caller's marker (user, field,
\* owning connection) on that record, whatever marker it had before, and
\* leaves the markers of the other records alone.
C20_OneMarkerLatestCaller ==
    /\ [](\A e1 \in activeEditors : \A e2 \in activeEditors :
            e1.requirementid = e2.requirementid => e1 = e2)
    /\ [][ \A c \in Clients : \A r \in ReqIds : \A f \in EditFields :
            SetEditing(c, r, f)
            => ( /\ {e \in activeEditors' : e.requirementid = r}
                        = {[requirementid |-> r, user |-> currentUser(c),
                            field |-> f, socket |-> c]}
                 /\ {e \in activeEditors' : e.requirementid # r}
                        = {e \in activeEditors : e.requirementid # r} )
       ]_vars

\* B's setEditing for the Slots cell of R1 has replaced A's marker on the Job
\* Title cell of R1: the registry holds B's marker, and the last R1 message
\* B has received is A's setEditing, after which nothing cleared R1.
C20_Witness ==
    /\ activeEditors =
        {[requirementid |-> "R1", user |-> "B", field |-> "slots",
          socket |-> "B"]}
    /\ "R1" \in DOMAIN editingStatus["B"]
    /\ editingStatus["B"]["R1"] = [user |-> "A", field |-> "title"]
    /\ "R1" \in DOMAIN editingStatus["A"]
    /\ editingStatus["A"]["R1"] = [user |-> "B", field |-> "slots"]


\* C21: a disconnect removes from the registry exactly the markers that the
\* leaving connection owns, and sends each other connected client exactly
\* one presence-cleared event (user null) for each removed marker and nothing
\* else; the leaving connection is sent nothing.
C21_DisconnectClears ==
    [][ \A c \in Clients :
            Disconnect(c)
            => ( /\ activeEditors' = {e \in activeEditors : e.socket # c}
                 /\ \A d \in connected \ {c} :
                        /\ \A e \in activeEditors :
                            CopiesIn([requirementid |-> e.requirementid,
                                      field |-> e.field, user |-> "",
                                      isEditing |-> FALSE], outbox'[d])
                                = IF e.socket = c THEN 1 ELSE 0
                        /\ BagCardinality(outbox'[d])
                                = Cardinality({e \in activeEditors :
                                                    e.socket = c})
                 /\ outbox'[c] = EmptyBag )
      ]_vars

\* A has disconnected while owning the marker of R1, of which B and C have
\* each been sent the one presence-cleared event; C's marker of R2 is still in
\* the registry.
C21_Witness ==
    /\ "A" \notin connected
    /\ activeEditors =
        {[requirementid |-> "R2", user |-> "C", field |-> "slots",
          socket |-> "C"]}
    /\ \A d \in {"B", "C"} :
        /\ outbox[d] =
            SetToBag({[requirementid |-> "R1", field |-> "title",
                       user |-> "", isEditing |-> FALSE]})
        /\ "R1" \in DOMAIN editingStatus[d]
        /\ editingStatus[d]["R1"] = NoMarker


\* C22: when client B, whose table component has announced the editing of a
\* cell of a record, is disconnected, every other connected client whose
\* indicator of that record names B eventually has it cleared or replaced.
C22_IndicatorCleared ==
    \A d \in Clients \ {"B"} : \A r \in ReqIds :
        ( /\ "B" \notin connected
          /\ d \in connected
          /\ r \in DOMAIN editingStatus[d]
          /\ editingStatus[d][r].user = "B" )
        ~> ( \/ d \notin connected
             \/ r \notin DOMAIN editingStatus[d]
             \/ editingStatus[d][r].user # "B" )


\* What socket.broadcast.emit("editing_status", data) of socket c has sent.
Forwarded(c, data) ==
    \A d \in Clients :
        outbox'[d] = IF d \in connected /\ d # c
                     THEN SetToBag({data}) ELSE EmptyBag

\* C23: an editing_status message that the server receives from a client,
\* whether it sets or clears a marker, is sent on once and unchanged to every
\* other connected client, and is not sent to its sender nor to anyone who
\* has disconnected.
C23_ForwardedToOthers ==
    [][ \A c \in connected : \A r \in ReqIds : \A f \in EditFields :
        /\ OnFocus(c, r, f)
            => Forwarded(c, [requirementid |-> r, field |-> f,
                             user |-> currentUser(c), isEditing |-> FALSE])
        /\ OnBlur(c, r, f)
            => Forwarded(c, [requirementid |-> r, field |-> f,
                             user |-> "", isEditing |-> FALSE])
        /\ SetEditing(c, r, f)
            => Forwarded(c, [requirementid |-> r, field |-> f,
                             user |-> currentUser(c), isEditing |-> TRUE])
      ]_vars

\* B's table has sent the clear of the Slots cell of R2 after A disconnected:
\* C alone has been sent it, and C's indicator of R2 is cleared.
C23_Witness ==
    /\ connected = {"B", "C"}
    /\ outbox["C"] =
        SetToBag({[requirementid |-> "R2", field |-> "slots", user |-> "",
                   isEditing |-> FALSE]})
    /\ outbox["A"] = EmptyBag
    /\ outbox["B"] = EmptyBag
    /\ "R2" \in DOMAIN editingStatus["C"]
    /\ editingStatus["C"]["R2"] = NoMarker
    /\ "R2" \notin DOMAIN editingStatus["B"]


\* C24: when a fetchRows of a client replaces its copy of a record by a newer
\* server snapshot, and no save of that record by the client is in flight,
\* the client holds no pending edit of that record afterwards: nothing it
\* typed before the snapshot is still displayed over the server's values or
\* left to be sent by a later save.
C24_SnapshotWins ==
    [][ \A c \in Clients :
            FetchRows(c)
            => \A r \in DOMAIN rows'[c] \cap DOMAIN rows[c] :
                ( /\ rows'[c][r] # rows[c][r]
                  /\ ~\E q \in reqs : q.client = c /\ q.id = r )
                => editing'[c][r].keys = {}
      ]_vars


\* C25: the UPDATE of a toggleWorking request of a recruiter who is not
\* assigned to the stored record, on a stored record that is not workable,
\* leaves the table unchanged and is answered as refused.
C25_NotWorkableRefused ==
    [][ \A q \in reqs :
            ( /\ q.kind = "toggle"
              /\ PutUpdate(q)
              /\ q.id \in DOMAIN db
              /\ ~isAssigned(db[q.id], currentUser(q.client))
              /\ isNonWorkable(db[q.id]) )
            => ( /\ db' = db
                 /\ \E p \in reqs' :
                        /\ p.client = q.client /\ p.id = q.id
                        /\ p.pc = "resp" /\ p.resp \notin {"ok", "okempty"} )
      ]_vars


\* C26: the server's step on a delete request of an id that is not stored
\* answers NotFound, changes no row and sends no event; on a stored id it
\* removes that row and no other, leaves every other row as it was, sends
\* all clients exactly one requisition_deleted event that carries the id,
\* and answers success.
C26_DeleteRecord ==
    [][ \A q \in reqs :
            DeleteRequisition(q)
            => IF q.id \notin DOMAIN db
               THEN /\ db' = db
                    /\ emitted' = emitted
                    /\ wire' = wire
                    /\ reqs' = Replace(q, [q EXCEPT !.pc = "resp",
                                                    !.resp = "notfound"])
               ELSE /\ DOMAIN db' = DOMAIN db \ {q.id}
                    /\ \A k \in DOMAIN db' : db'[k] = db[k]
                    /\ now' = now + 1
                    /\ emitted' = [emitted EXCEPT ![now + 1] = @ + 1]
                    /\ wire' = Event("requisition_deleted", {}, {q.id})
                    /\ \E p \in reqs' :
                        /\ p.kind = "delete" /\ p.id = q.id
                        /\ p.pc = "resp" /\ p.resp = "ok"
      ]_vars

\* R1 has been deleted and announced once; R2 is as it was; a second delete
\* of R1 has been answered NotFound.
C26_Witness ==
    /\ DOMAIN db = {"R2"}
    /\ db["R2"] = InitRow("R2")
    /\ now = 1
    /\ emitted = [t \in 0..MaxClock |-> IF t = 1 THEN 1 ELSE 0]
    /\ wire = Event("requisition_deleted", {}, {"R1"})
    /\ \E q \in reqs :
        /\ q.kind = "delete" /\ q.id = "R1"
        /\ q.pc = "resp" /\ q.resp = "notfound"


\* C27: the latest requisition_created or requisitions_updated event that the
\* server has sent to the clients carries a record: its payload is never
\* absent.
C27_FullPayload ==
    wire.event \in {"requisition_created", "requisitions_updated"}
        => wire.rows # {}


\* C28: the requisitions_updated events of the patches of a record are sent
\* in the order of their UPDATEs: once every patch sent has been applied and
\* announced, the record that the latest announcement carries is the
\* record as stored.
C28_EventOrder ==
    ( /\ \A q \in reqs : q.pc = "resp"
      /\ wire.event = "requisitions_updated" )
    => \A row \in wire.rows :
            /\ row.requirementid \in DOMAIN db
            /\ row = db[row.requirementid]


\* C29: an event and a success answer of a create, patch or delete exist only
\* once the write they are about is in the store: every event sent is for a
\* write already applied, the row an event carries was written no later than
\* now, and a request answered with success has its write applied.
C29_PersistBeforeBroadcast ==
    /\ \A t \in 1..MaxClock : emitted[t] > 0 => t <= now
    /\ \A row \in wire.rows : row.createdat >= 1 /\ row.createdat <= now
    /\ \A id \in wire.ids : now >= 1
    /\ \A q \in reqs :
          (q.pc = "resp" /\ q.resp = "ok") => (q.at >= 1 /\ q.at <= now)

\* A patch whose UPDATE is applied and whose event is still to be sent, next
\* to a create or delete already announced and answered.
C29_Witness ==
    /\ \E q \in reqs : q.pc = "emit" /\ q.ret # {} /\ q.at = now
    /\ \E p \in reqs : p.kind \in {"add", "delete"} /\ p.pc = "resp"
                         /\ p.resp = "ok" /\ emitted[p.at] > 0


\* C30: the UPDATE of a toggleWorking request of recruiter A leaves every
\* other recruiter's membership of the record's assigned_recruiters and
\* working_times as it was in the store just before the UPDATE.
C30_NoLostAssignment ==
    [][ \A q \in reqs :
          ( /\ q.kind = "toggle"
            /\ PutUpdate(q)
            /\ q.id \in DOMAIN db
            /\ q.id \in DOMAIN db' )
          => \A c \in Clients \ {q.client} :
                /\ isAssigned(db'[q.id], currentUser(c))
                      <=> isAssigned(db[q.id], currentUser(c))
                /\ currentUser(c) \in db'[q.id].working_times
                      <=> currentUser(c) \in db[q.id].working_times
      ]_vars


\* C31: a patch whose UPDATE would write the status or the slots column of a
\* record with non-empty assigned_recruiters is answered Locked by the
\* handler's check, in whatever letter case the body names the field.
C31_CheckMatchesWrite ==
    [][ \A q \in reqs :
            ( /\ q.kind = "save"
              /\ q.id \in DOMAIN db
              /\ Len(db[q.id].assigned_recruiters) > 0
              /\ setClauses(q.keys) \cap {"status", "slots"} # {}
              /\ PutSelect(q) )
            => ( /\ db' = db
                 /\ reqs' = Replace(q, [q EXCEPT !.pc = "resp", !.resp = "locked"]) )
      ]_vars


\* C32: a marker leaves the presence registry only in a step that is a clear
\* sent by the connection that owns it, a setEditing on the same record, or
\* its owner's disconnect; a clear of the record by another connection
\* leaves the marker in place.
C32_OnlyOwnerClears ==
    [][ \A e \in activeEditors :
            e \notin activeEditors'
            => \/ e.socket \notin connected'
               \/ \E e2 \in activeEditors' : e2.requirementid = e.requirementid
               \/ \E f \in EditFields : \E u \in {"", currentUser(e.socket)} :
                     EditingStatus(e.socket,
                        [requirementid |-> e.requirementid, field |-> f,
                         user |-> u, isEditing |-> FALSE])
      ]_vars


\* C33: once no request is in flight and no fetchRows of a client is still
\* to run, the rows of that client are the rows of the store, in whatever
\* order the responses of its fetchRows calls have arrived.
C33_Convergence ==
    \A c \in Clients :
        (reqs = {} /\ pending[c] = {}) => rows[c] = db


\* C34: the status update of checkEmails for a stored record and a status
\* other than Open stores that status together with empty
\* assigned_recruiters and working_times in one write; for Open it leaves
\* both as they were; for a record that is not stored, at its SELECT or at
\* its UPDATE, it writes nothing and sends no event.
C34_EmailStatusUpdate ==
    [][ \A q \in reqs :
          /\ (EmailUpdate(q) /\ q.id \in DOMAIN db)
             => ( /\ db'[q.id].status = q.vals.status
                  /\ \A k \in DOMAIN db \ {q.id} : db'[k] = db[k]
                  /\ IF q.vals.status # "Open"
                     THEN /\ db'[q.id].assigned_recruiters = <<>>
                          /\ db'[q.id].working_times = {}
                     ELSE /\ db'[q.id].assigned_recruiters
                                = db[q.id].assigned_recruiters
                          /\ db'[q.id].working_times = db[q.id].working_times )
          /\ ((EmailUpdate(q) \/ EmailSelect(q)) /\ q.id \notin DOMAIN db)
             => ( /\ db' = db /\ emitted' = emitted
                  /\ pending' = pending /\ wire' = wire )
      ]_vars

\* A mail has closed R1 while recruiter A was working on it: the stored row is
\* Closed with nobody assigned, it is the row just announced, and A's table
\* still shows A as assigned.
C34_Witness ==
    /\ "R1" \in DOMAIN db
    /\ db["R1"].status = "Closed"
    /\ db["R1"].assigned_recruiters = <<>>
    /\ db["R1"].working_times = {}
    /\ wire = Event("requisitions_updated", {db["R1"]}, {})
    /\ "R1" \in DOMAIN rows["A"]
    /\ rows["A"]["R1"].assigned_recruiters = <<"A">>


\* C35: a patch whose record is not stored when its UPDATE runs, is answered
\* NotFound and sends no event and no refresh, also when the record was there
\* at the handler's SELECT and a delete has removed it since.
C35_PatchOfDeleted ==
    [][ \A q \in reqs :
            ( /\ q.kind \in {"toggle", "save"}
              /\ q.id \notin DOMAIN db
              /\ PutUpdate(q) )
            => ( /\ reqs' = Replace(q, [q EXCEPT !.pc = "resp", !.resp = "notfound"])
                 /\ db' = db
                 /\ emitted' = emitted
                 /\ pending' = pending
                 /\ wire' = wire )
      ]_vars


\* C36: the row that a create request stores has the slots value of the
\* request, 0 included, and has no assigned recruiters and no working times.
C36_SlotsStored ==
    [][ \A q \in reqs :
            ( /\ q.kind = "add"
              /\ q.id \notin DOMAIN db
              /\ PostInsert(q) )
            => ( /\ q.id \in DOMAIN db'
                 /\ db'[q.id].slots = q.vals.slots
                 /\ db'[q.id].assigned_recruiters = <<>>
                 /\ db'[q.id].working_times = {} )
      ]_vars


\* The listener clients whose connection is up.
Connected == {c \in PgIds : pgClients[c] \in {"connected", "listening"}}

\* C37: at every point of startListener, of its 'end' handler and of its
\* failure path, at most one listener client is connected and at most one
\* reconnect timer is pending.
C37_SingleListener ==
    /\ Cardinality(Connected) <= 1
    /\ Len(timers) <= 1


\* The listener the global names is subscribed, and no reconnect is pending
\* or under way.
Recovered ==
    /\ listenerClient # 0
    /\ pgClients[listenerClient] = "listening"
    /\ timers = <<>>
    /\ calls = {}

\* An 'end' event that MaxReconnects holds back.
HeldBack ==
    /\ \E c \in PgIds : pgClients[c] = "closing"
    /\ Len(timers) + Cardinality(calls) >= MaxReconnects

\* C38: a pending reconnect always leads to a startListener call; and when
\* the database stays reachable from some point on, the listener gets to be
\* connected and subscribed to requisitions_change with no reconnect pending
\* (in the behaviours in which no 'end' event is held back).
C38_ListenerRecovery ==
    ([]~HeldBack)
    => ( /\ (timers # <<>>) ~> (\E k \in calls : k.pc \in {"endOld", "connect"})
         /\ (<>[]dbUp) => []<>Recovered )

\* C39: listenerReconnectDelay is always an integer from 2000 up to the cap
\* of the revision; the 'end' event of a client sets a reconnect timer with
\* the delay of that moment and then sets the delay to
\* min(cap, floor(delay * 1.5)); a connect() that succeeds sets the delay
\* back to 2000.
C39_BackoffBounds ==
    /\ [](listenerReconnectDelay \in 2000..MAX_BACKOFF)
    /\ [][\A c \in PgIds :
            /\ (pgClients[c] = "closing" /\ pgClients'[c] = "ended")
                => /\ timers' = Append(timers, listenerReconnectDelay)
                   /\ listenerReconnectDelay' =
                        Min(MAX_BACKOFF, (listenerReconnectDelay * 3) \div 2)
            /\ (pgClients[c] = "created" /\ pgClients'[c] = "connected")
                => listenerReconnectDelay' = 2000]_vars

\* In backend/app.js the seventh 'end' event in a row has cut
\* floor(22780 * 1.5) = 34170 down to the cap, and the timer it set before
\* is still pending.
C39_Witness ==
    /\ MAX_BACKOFF = 30000
    /\ listenerReconnectDelay = 30000
    /\ timers # <<>>
    /\ timers[Len(timers)] = 22780

====
